---- MODULE Spec2Model ----
(***************************************************************************)
(* Risk & position lifecycle engine of the Monero trading bot:             *)
(* RiskManager (src/src/risk/risk_manager.py), PositionSizer               *)
(* (src/src/risk/position_sizing.py) and StopLossCalculator /              *)
(* TakeProfitCalculator (src/src/risk/stop_loss.py).                       *)
(*                                                                         *)
(* Numbers.  The code computes in floats; the model computes the same      *)
(* expressions exactly, over inputs chosen so that every quotient is an    *)
(* integer.  Money and prices are in dollars.  Fractions that the code     *)
(* holds as 0.02, 0.2, ... are held in percent (2, 20, ...).               *)
(* current_exposure, a fraction of portfolio_value in the code, is held    *)
(* in units of 1/portfolio_value, so the code's 1.0 is portfolio_value     *)
(* and position_value / portfolio_value is position_value units.           *)
(***************************************************************************)
EXTENDS Integers, Sequences, FiniteSets, TLC

\* ------------------------------------------------------------------ bounds
\* successful closes allowed in a behaviour of Spec
MaxTrades == 2
\* successful closes allowed in a behaviour of SpecStreak
MaxStreakTrades == 5
\* entry prices of SpecCalc, in hundreds
MaxCalcPrice == 20
\* calendar days the clock runs through
MaxDay == 2
\* successful closes allowed in a behaviour of SpecSize
MaxSizeTrades == 1
\* successful closes allowed in a behaviour of SpecEval
MaxEvalTrades == 1
\* successful closes allowed in a behaviour of SpecPaired
MaxPairedTrades == 1
\* successful closes allowed in a behaviour of SpecLocked
MaxLockTrades == 5
\* positions opened in a behaviour of SpecMonitor
MaxMonitorIds == 3
\* positions opened in a behaviour of SpecLoop
MaxLoopIds == 3
\* orders placed in a behaviour of SpecOrders
MaxOrders == 1

\* --------------------------------------------------------- configuration
initial_capital == 10000
max_drawdown == 20
max_consecutive_losses == 5
daily_loss_limit == 5
risk_per_trade == 2
min_stop_distance == 1
max_stop_distance == 5
percentage == 2
trailing_trigger == 2
trailing_percentage == 2
\* _kelly_criterion_sizing: win_probability 0.55, win_loss_ratio 1.5 and the
\* quarter of the Kelly fraction it takes, all in percent
win_probability == 55
win_loss_ratio == 150
conservative_kelly == 25
\* _volatility_adjusted_sizing: the volatility_factor of a price that is not positive
volatility_default == 2
\* _support_resistance_stop: rows looked back over, and the buffer beyond the
\* level in thousandths of the entry
lookback == 50
support_buffer == 2
\* _volatility_based_stop: returns needed, and the multiple of their deviation
min_returns == 20
volatility_multiplier == 2
\* values read from the config module
max_position_size == 10
max_portfolio_exposure == 30
default_atr_multiplier == 2
min_risk_reward_ratio == 2

portfolio_value == initial_capital
\* OrderManager.retry_attempts
retry_attempts == 3

\* ----------------------------------------------------------------- state
VARIABLES
    positions,          \* RiskManager.positions: id -> position record
    trade_history,      \* RiskManager.trade_history: sequence of trade results
    daily_pnl,          \* RiskManager.daily_pnl: day -> realized pnl of that day
    current_capital,    \* RiskManager.current_capital
    peak_capital,       \* RiskManager.peak_capital
    consecutive_losses, \* RiskManager.consecutive_losses
    current_exposure,   \* PositionSizer.current_exposure, in 1/portfolio_value
    today,              \* datetime.now().date(), as a day number
    last,               \* the last call made on the ledger and what it returned
    orders,             \* OrderManager.orders: order id -> the order's fields
    calls               \* the place_order coroutines: order id -> where the call is

vars == <<positions, trade_history, daily_pnl, current_capital, peak_capital,
          consecutive_losses, current_exposure, today, last, orders, calls>>

ledger == <<positions, trade_history, daily_pnl, current_capital, peak_capital,
            consecutive_losses, current_exposure>>

\* --------------------------------------------------------------- helpers
Max(a, b) == IF a >= b THEN a ELSE b
Min(a, b) == IF a <= b THEN a ELSE b
Abs(a) == IF a >= 0 THEN a ELSE -a

\* what a call returned: res is "ok", an error / rejection reason or "approved";
\* val carries the approval of evaluate_trade_opportunity and is <<>> otherwise
Call(op, res, val) == [op |-> op, res |-> res, val |-> val]

\* ------------------------------------------------------- PositionSizer
\* update_exposure without its final clamp to [0, 1]
update_exposure_unclamped(position_value, action) ==
    IF action = "add" THEN current_exposure + position_value
    ELSE IF action = "remove" THEN current_exposure - position_value
    ELSE current_exposure

\* update_exposure: the new value of current_exposure
update_exposure(position_value, action) ==
    LET moved == IF action = "add" THEN current_exposure + position_value
                 ELSE IF action = "remove" THEN current_exposure - position_value
                 ELSE current_exposure
    IN Max(0, Min(portfolio_value, moved))

\* can_open_position refusing a size that lands exactly on the limit
can_open_position_strict(position_value) ==
    (current_exposure + position_value) * 100 < max_portfolio_exposure * portfolio_value

\* can_open_position: potential_exposure <= max_portfolio_exposure
can_open_position(position_value) ==
    (current_exposure + position_value) * 100 <= max_portfolio_exposure * portfolio_value

\* --------------------------------------------------------- RiskManager
\* _check_risk_limits with the streak compared by > instead of >=
check_risk_limits_late ==
    /\ ~((peak_capital - current_capital) * 100 > max_drawdown * peak_capital)
    /\ ~(consecutive_losses > max_consecutive_losses)
    /\ ~(/\ today \in DOMAIN daily_pnl
         /\ (-daily_pnl[today]) * 100 > daily_loss_limit * initial_capital)

\* _check_risk_limits without the test of the losing streak
check_risk_limits_no_streak ==
    /\ ~((peak_capital - current_capital) * 100 > max_drawdown * peak_capital)
    /\ ~(/\ today \in DOMAIN daily_pnl
         /\ (-daily_pnl[today]) * 100 > daily_loss_limit * initial_capital)

\* _check_risk_limits: TRUE when trading is allowed
check_risk_limits ==
    /\ ~((peak_capital - current_capital) * 100 > max_drawdown * peak_capital)
    /\ ~(consecutive_losses >= max_consecutive_losses)
    /\ ~(/\ today \in DOMAIN daily_pnl
         /\ (-daily_pnl[today]) * 100 > daily_loss_limit * initial_capital)

\* the pnl of a position at a price: long (price - entry) * units, short the inverse
PositionPnl(position, price) ==
    IF position.position_type = "long"
    THEN (price - position.entry_price) * position.units
    ELSE (position.entry_price - price) * position.units

add_position(position_id, entry_price, units, stop_loss, take_profit, position_type) ==
    LET position == [entry_price |-> entry_price,
                     units |-> units,
                     stop_loss |-> stop_loss,
                     take_profit |-> take_profit,
                     position_type |-> position_type,
                     entry_time |-> today,
                     unrealized_pnl |-> 0]
    IN /\ positions' = [id \in DOMAIN positions \cup {position_id} |->
                           IF id = position_id THEN position ELSE positions[id]]
       /\ current_exposure' = update_exposure(entry_price * units, "add")
       /\ last' = Call("add_position", "ok", <<>>)
       /\ UNCHANGED <<trade_history, daily_pnl, current_capital, peak_capital,
                      consecutive_losses, today, orders, calls>>

\* close_position, lines 209-211: the peak after a close that leaves `capital`
next_peak_capital_tracking(capital) == capital

next_peak_capital_stale(capital) == peak_capital

next_peak_capital(capital) ==
    IF capital > peak_capital THEN capital ELSE peak_capital

\* close_position, lines 213-216: the streak after a close with this pnl
next_consecutive_losses_kept(pnl) ==
    IF pnl < 0 THEN consecutive_losses + 1 ELSE consecutive_losses

next_consecutive_losses_set(pnl) ==
    IF pnl < 0 THEN 1 ELSE 0

next_consecutive_losses(pnl) ==
    IF pnl < 0 THEN consecutive_losses + 1 ELSE 0

next_trade_history_prepended(trade_result) ==
    <<trade_result>> \o trade_history

\* self.trade_history.append(trade_result)
next_trade_history(trade_result) ==
    Append(trade_history, trade_result)

\* close_position, lines 204-207, storing the pnl as the day's total
next_daily_pnl_overwriting(pnl) ==
    [d \in DOMAIN daily_pnl \cup {today} |-> IF d = today THEN pnl ELSE daily_pnl[d]]

\* close_position, lines 204-207: daily_pnl after a close with this pnl today
next_daily_pnl(pnl) ==
    [d \in DOMAIN daily_pnl \cup {today} |->
        (IF d \in DOMAIN daily_pnl THEN daily_pnl[d] ELSE 0)
        + (IF d = today THEN pnl ELSE 0)]

\* the value of 0.0 / 0.0 in numpy float64 arithmetic
NaN == "nan"

\* close_position, lines 188-223: the trade is booked with the given return_pct
book_trade(position_id, exit_price, reason, return_pct) ==
    LET position == positions[position_id]
        pnl == PositionPnl(position, exit_price)
        trade_result == [position_id |-> position_id,
                         entry_price |-> position.entry_price,
                         exit_price |-> exit_price,
                         units |-> position.units,
                         position_type |-> position.position_type,
                         pnl |-> pnl,
                         return_pct |-> return_pct,
                         entry_time |-> position.entry_time,
                         exit_time |-> today,
                         duration |-> today - position.entry_time,
                         reason |-> reason]
        capital == current_capital + pnl
    IN /\ trade_history' = next_trade_history(trade_result)
       /\ daily_pnl' = next_daily_pnl(pnl)
       /\ current_capital' = capital
       /\ peak_capital' = next_peak_capital(capital)
       /\ consecutive_losses' = next_consecutive_losses(pnl)
       /\ current_exposure' =
              update_exposure(position.entry_price * position.units, "remove")
       /\ positions' = [id \in DOMAIN positions \ {position_id} |-> positions[id]]
       /\ last' = Call("close_position", "ok", <<>>)
       /\ UNCHANGED <<today, orders, calls>>

\* close_position from line 181 on: the id is open.  Line 195 divides the pnl
\* by entry_price * units; when that is zero the division is 0 / 0, which
\* raises ZeroDivisionError before anything is written if the operands are
\* Python floats and gives nan, booking the trade, if they are numpy floats
\* (main.py passes df['close'].iloc[-1], a numpy float64, as the entry price)
close_open_position(position_id, exit_price, reason) ==
    LET position == positions[position_id]
        pnl == PositionPnl(position, exit_price)
        notional == position.entry_price * position.units
    IN IF notional = 0
       THEN \/ book_trade(position_id, exit_price, reason, NaN)
            \/ /\ last' = Call("close_position", "ZeroDivisionError", <<>>)
               /\ UNCHANGED <<ledger, today, orders, calls>>
       ELSE book_trade(position_id, exit_price, reason, (pnl * 100) \div notional)

\* close_position taking an id that is not open for a position already flat
close_position_silent(position_id, exit_price, reason) ==
    IF position_id \notin DOMAIN positions
    THEN /\ consecutive_losses' = 0
         /\ last' = Call("close_position", "ok", <<>>)
         /\ UNCHANGED <<positions, trade_history, daily_pnl, current_capital,
                        peak_capital, current_exposure, today, orders, calls>>
    ELSE close_open_position(position_id, exit_price, reason)

close_position(position_id, exit_price, reason) ==
    IF position_id \notin DOMAIN positions
    THEN /\ last' = Call("close_position", "Position not found", <<>>)
         /\ UNCHANGED <<ledger, today, orders, calls>>
    ELSE close_open_position(position_id, exit_price, reason)


\* ---------------------------------------------------- StopLossCalculator
\* a price frame df, as far as the calculators read it: whether it has an atr
\* column with a value in its last row, and that value
Frame(has_atr, atr) == [has_atr |-> has_atr, atr |-> atr]

percentage_based_stop(entry_price, position_type) ==
    LET stop_distance == (entry_price * percentage) \div 100
    IN IF position_type = "long" THEN entry_price - stop_distance
       ELSE entry_price + stop_distance

\* _atr_based_stop taking atr * multiplier as the distance, without the clamp
atr_based_stop_unclamped(entry_price, df, position_type) ==
    IF ~df.has_atr
    THEN percentage_based_stop(entry_price, position_type)
    ELSE LET stop_distance == df.atr * default_atr_multiplier
         IN IF position_type = "long" THEN entry_price - stop_distance
            ELSE entry_price + stop_distance

atr_based_stop(entry_price, df, position_type) ==
    IF ~df.has_atr
    THEN percentage_based_stop(entry_price, position_type)
    ELSE LET stop_distance ==
                 Max((entry_price * min_stop_distance) \div 100,
                     Min((entry_price * max_stop_distance) \div 100,
                         df.atr * default_atr_multiplier))
         IN IF position_type = "long" THEN entry_price - stop_distance
            ELSE entry_price + stop_distance

\* a price history df as far as the other stop methods read it too: the low
\* and high columns, the number of returns close.pct_change().dropna() has and
\* the standard deviation of the last 20 of them, in percent
History(has_atr, atr, lows, highs, returns, std_dev) == [has_atr |-> has_atr, atr |-> atr, lows |-> lows, highs |-> highs, returns |-> returns, std_dev |-> std_dev]

\* df.tail(min(50, len(df))) of a column
recent_data(column) ==
    SubSeq(column, Len(column) - Min(lookback, Len(column)) + 1, Len(column))

\* _find_support_levels: the lows below their two neighbours on either side
find_support_levels(lows) ==
    {lows[i] : i \in {j \in 3..(Len(lows) - 2) :
                          /\ lows[j] < lows[j - 1] /\ lows[j] < lows[j - 2]
                          /\ lows[j] < lows[j + 1] /\ lows[j] < lows[j + 2]}}

\* _find_resistance_levels: the highs above their two neighbours on either side
find_resistance_levels(highs) ==
    {highs[i] : i \in {j \in 3..(Len(highs) - 2) :
                           /\ highs[j] > highs[j - 1] /\ highs[j] > highs[j - 2]
                           /\ highs[j] > highs[j + 1] /\ highs[j] > highs[j + 2]}}

Highest(levels) == CHOOSE x \in levels : \A y \in levels : y <= x
Lowest(levels) == CHOOSE x \in levels : \A y \in levels : x <= y

\* _support_resistance_stop falling back to the percentage stop
support_resistance_stop_to_percentage(entry_price, df, position_type) ==
    LET buffer == (entry_price * support_buffer) \div 1000
        below == {l \in find_support_levels(recent_data(df.lows)) : l < entry_price}
        above == {l \in find_resistance_levels(recent_data(df.highs)) : l > entry_price}
    IN IF position_type = "long" /\ below # {} /\ Highest(below) # 0
       THEN Max(Highest(below) - buffer,
                (entry_price * (100 - max_stop_distance)) \div 100)
       ELSE IF position_type # "long" /\ above # {} /\ Lowest(above) # 0
       THEN Min(Lowest(above) + buffer,
                (entry_price * (100 + max_stop_distance)) \div 100)
       ELSE percentage_based_stop(entry_price, position_type)

\* _support_resistance_stop: 'if nearest_support:' is false for None and for a
\* level of 0
support_resistance_stop(entry_price, df, position_type) ==
    LET buffer == (entry_price * support_buffer) \div 1000
        below == {l \in find_support_levels(recent_data(df.lows)) : l < entry_price}
        above == {l \in find_resistance_levels(recent_data(df.highs)) : l > entry_price}
    IN IF position_type = "long" /\ below # {} /\ Highest(below) # 0
       THEN Max(Highest(below) - buffer,
                (entry_price * (100 - max_stop_distance)) \div 100)
       ELSE IF position_type # "long" /\ above # {} /\ Lowest(above) # 0
       THEN Min(Lowest(above) + buffer,
                (entry_price * (100 + max_stop_distance)) \div 100)
       ELSE atr_based_stop(entry_price, df, position_type)

volatility_based_stop(entry_price, df, position_type) ==
    IF df.returns < min_returns
    THEN percentage_based_stop(entry_price, position_type)
    ELSE LET stop_distance ==
                 Max((entry_price * min_stop_distance) \div 100,
                     Min((entry_price * max_stop_distance) \div 100,
                         (entry_price * df.std_dev * volatility_multiplier) \div 100))
         IN IF position_type = "long" THEN entry_price - stop_distance
            ELSE entry_price + stop_distance

\* calculate_stop_loss called with a method
calculate_stop_loss_by(entry_price, df, position_type, method) ==
    IF method = "atr" THEN atr_based_stop(entry_price, df, position_type)
    ELSE IF method = "percentage" THEN percentage_based_stop(entry_price, position_type)
    ELSE IF method = "support_resistance"
    THEN support_resistance_stop(entry_price, df, position_type)
    ELSE IF method = "volatility" THEN volatility_based_stop(entry_price, df, position_type)
    ELSE atr_based_stop(entry_price, df, position_type)

\* calculate_stop_loss with the default method 'atr'
calculate_stop_loss(entry_price, df, position_type) ==
    atr_based_stop(entry_price, df, position_type)

\* calculate_trailing_stop returning the trailed level whatever the stop in place
calculate_trailing_stop_loose(current_price, entry_price, current_stop, position_type) ==
    IF position_type = "long"
    THEN IF (current_price - entry_price) * 100 > trailing_trigger * entry_price
         THEN (current_price * (100 - trailing_percentage)) \div 100
         ELSE current_stop
    ELSE IF (entry_price - current_price) * 100 > trailing_trigger * entry_price
         THEN (current_price * (100 + trailing_percentage)) \div 100
         ELSE current_stop

\* calculate_trailing_stop trailing already at the trigger
calculate_trailing_stop_eager(current_price, entry_price, current_stop, position_type) ==
    IF position_type = "long"
    THEN IF (current_price - entry_price) * 100 >= trailing_trigger * entry_price
         THEN Max(current_stop, (current_price * (100 - trailing_percentage)) \div 100)
         ELSE current_stop
    ELSE IF (entry_price - current_price) * 100 >= trailing_trigger * entry_price
         THEN Min(current_stop, (current_price * (100 + trailing_percentage)) \div 100)
         ELSE current_stop

calculate_trailing_stop(current_price, entry_price, current_stop, position_type) ==
    IF position_type = "long"
    THEN IF (current_price - entry_price) * 100 > trailing_trigger * entry_price
         THEN Max(current_stop, (current_price * (100 - trailing_percentage)) \div 100)
         ELSE current_stop
    ELSE IF (entry_price - current_price) * 100 > trailing_trigger * entry_price
         THEN Min(current_stop, (current_price * (100 + trailing_percentage)) \div 100)
         ELSE current_stop

\* -------------------------------------------------- TakeProfitCalculator
\* _risk_reward_based_target with a reward equal to the risk
risk_reward_based_target_flat(entry_price, stop_loss, position_type) ==
    LET risk == Abs(entry_price - stop_loss)
    IN IF position_type = "long" THEN entry_price + risk
       ELSE entry_price - risk

risk_reward_based_target(entry_price, stop_loss, position_type) ==
    LET risk == Abs(entry_price - stop_loss)
        reward == risk * min_risk_reward_ratio
    IN IF position_type = "long" THEN entry_price + reward
       ELSE entry_price - reward

\* calculate_take_profit with the default method 'risk_reward'
calculate_take_profit(entry_price, stop_loss, df, position_type) ==
    risk_reward_based_target(entry_price, stop_loss, position_type)

\* --------------------------------------------------- PositionSizer sizing
\* _fixed_fractional_sizing risking risk_per_trade whatever the signal strength
fixed_fractional_sizing_full_risk(signal_strength, current_price, stop_loss_price) ==
    LET risk_amount == (portfolio_value * risk_per_trade) \div 100
        price_move == Abs(current_price - stop_loss_price)
        uncapped == IF price_move > 0 /\ current_price > 0
                    THEN (risk_amount * current_price) \div price_move
                    ELSE 0
        capped == Min(uncapped, (portfolio_value * max_position_size) \div 100)
        available_exposure ==
            (max_portfolio_exposure * portfolio_value) \div 100 - current_exposure
        dollar_amount == Min(capped, available_exposure)
    IN [units |-> IF current_price > 0 THEN dollar_amount \div current_price ELSE 0,
        dollar_amount |-> dollar_amount,
        percent_of_portfolio |-> dollar_amount,
        risk_amount |-> risk_amount,
        stop_loss_price |-> stop_loss_price]

\* _fixed_fractional_sizing capping at max_position_size only
fixed_fractional_sizing_unreserved(signal_strength, current_price, stop_loss_price) ==
    LET risk_amount == (portfolio_value * risk_per_trade * signal_strength) \div (100 * 100)
        price_move == Abs(current_price - stop_loss_price)
        uncapped == IF price_move > 0 /\ current_price > 0
                    THEN (risk_amount * current_price) \div price_move
                    ELSE 0
        dollar_amount == Min(uncapped, (portfolio_value * max_position_size) \div 100)
    IN [units |-> IF current_price > 0 THEN dollar_amount \div current_price ELSE 0,
        dollar_amount |-> dollar_amount,
        percent_of_portfolio |-> dollar_amount,
        risk_amount |-> risk_amount,
        stop_loss_price |-> stop_loss_price]

\* _fixed_fractional_sizing; signal_strength in percent
fixed_fractional_sizing(signal_strength, current_price, stop_loss_price) ==
    LET risk_amount == (portfolio_value * risk_per_trade * signal_strength) \div (100 * 100)
        price_move == Abs(current_price - stop_loss_price)
        \* price_risk = price_move / current_price is > 0 only for a positive price
        uncapped == IF price_move > 0 /\ current_price > 0
                    THEN (risk_amount * current_price) \div price_move
                    ELSE 0
        capped == Min(uncapped, (portfolio_value * max_position_size) \div 100)
        available_exposure ==
            (max_portfolio_exposure * portfolio_value) \div 100 - current_exposure
        dollar_amount == Min(capped, available_exposure)
    IN [units |-> IF current_price > 0 THEN dollar_amount \div current_price ELSE 0,
        dollar_amount |-> dollar_amount,
        percent_of_portfolio |-> dollar_amount,
        risk_amount |-> risk_amount,
        stop_loss_price |-> stop_loss_price]

\* _kelly_criterion_sizing applying no exposure cap
kelly_criterion_sizing_uncapped(signal_strength, current_price, stop_loss_price) ==
    LET kelly_fraction == Max(0, (win_probability * win_loss_ratio
                                  - (100 - win_probability) * 100) \div win_loss_ratio)
        dollar_amount == Min((portfolio_value * kelly_fraction * conservative_kelly
                                  * signal_strength) \div (100 * 100 * 100),
                             (portfolio_value * max_position_size) \div 100)
    IN [units |-> IF current_price > 0 THEN dollar_amount \div current_price ELSE 0,
        dollar_amount |-> dollar_amount,
        percent_of_portfolio |-> dollar_amount,
        risk_amount |-> (dollar_amount * Abs(current_price - stop_loss_price))
                        \div current_price,
        stop_loss_price |-> stop_loss_price]

\* _kelly_criterion_sizing; win_probability and win_loss_ratio in percent, so
\* kelly_fraction is in percent; the method divides by current_price at the
\* end (line 99) and is applied to prices other than 0 only
kelly_criterion_sizing(signal_strength, current_price, stop_loss_price) ==
    LET kelly_fraction == Max(0, (win_probability * win_loss_ratio
                                  - (100 - win_probability) * 100) \div win_loss_ratio)
        capped == Min((portfolio_value * kelly_fraction * conservative_kelly
                           * signal_strength) \div (100 * 100 * 100),
                      (portfolio_value * max_position_size) \div 100)
        available_exposure ==
            (max_portfolio_exposure * portfolio_value) \div 100 - current_exposure
        dollar_amount == Min(capped, available_exposure)
    IN [units |-> IF current_price > 0 THEN dollar_amount \div current_price ELSE 0,
        dollar_amount |-> dollar_amount,
        percent_of_portfolio |-> dollar_amount,
        risk_amount |-> (dollar_amount * Abs(current_price - stop_loss_price))
                        \div current_price,
        stop_loss_price |-> stop_loss_price]

\* _volatility_adjusted_sizing as calculate_position_size calls it, with no atr:
\* atr = |current_price - stop_loss_price|, volatility_factor = atr /
\* current_price for a positive price and 0.02 otherwise.  Applied where the
\* divisions of lines 121 and 135 are defined: current_price # 0, and atr # 0
\* for a positive price
volatility_adjusted_sizing(signal_strength, current_price, stop_loss_price) ==
    LET atr == Abs(current_price - stop_loss_price)
        uncapped == IF current_price > 0
                    THEN (portfolio_value * risk_per_trade * current_price * signal_strength)
                             \div (atr * 100 * 100)
                    ELSE (portfolio_value * risk_per_trade * 100 * signal_strength)
                             \div (volatility_default * 100 * 100)
        capped == Min(uncapped, (portfolio_value * max_position_size) \div 100)
        available_exposure ==
            (max_portfolio_exposure * portfolio_value) \div 100 - current_exposure
        dollar_amount == Min(capped, available_exposure)
    IN [units |-> IF current_price > 0 THEN dollar_amount \div current_price ELSE 0,
        dollar_amount |-> dollar_amount,
        percent_of_portfolio |-> dollar_amount,
        risk_amount |-> (dollar_amount * atr) \div current_price,
        stop_loss_price |-> stop_loss_price]

\* what calculate_position_size returns for a method: the PositionSize, or the
\* ZeroDivisionError its float divisions raise (lines 55, 99, 121, 135)
SizeResult(signal_strength, current_price, stop_loss_price, method) ==
    IF method = "fixed_fractional"
    THEN IF current_price = 0
         THEN Call("calculate_position_size", "ZeroDivisionError", <<>>)
         ELSE Call("calculate_position_size", "ok",
                   fixed_fractional_sizing(signal_strength, current_price, stop_loss_price))
    ELSE IF method = "kelly_criterion"
    THEN IF current_price = 0
         THEN Call("calculate_position_size", "ZeroDivisionError", <<>>)
         ELSE Call("calculate_position_size", "ok",
                   kelly_criterion_sizing(signal_strength, current_price, stop_loss_price))
    ELSE IF method = "volatility_adjusted"
    THEN IF current_price = 0 \/ (current_price > 0 /\ current_price = stop_loss_price)
         THEN Call("calculate_position_size", "ZeroDivisionError", <<>>)
         ELSE Call("calculate_position_size", "ok",
                   volatility_adjusted_sizing(signal_strength, current_price, stop_loss_price))
    ELSE IF current_price = 0
         THEN Call("calculate_position_size", "ZeroDivisionError", <<>>)
         ELSE Call("calculate_position_size", "ok",
                   fixed_fractional_sizing(signal_strength, current_price, stop_loss_price))

\* calculate_position_size called with a method
calculate_position_size_by(signal_strength, current_price, stop_loss_price, method) ==
    /\ last' = SizeResult(signal_strength, current_price, stop_loss_price, method)
    /\ UNCHANGED <<positions, trade_history, daily_pnl, current_capital, peak_capital,
                   consecutive_losses, current_exposure, today, orders, calls>>

\* calculate_position_size with the default method 'fixed_fractional'
calculate_position_size(signal_strength, current_price, stop_loss_price) ==
    fixed_fractional_sizing(signal_strength, current_price, stop_loss_price)

\* ------------------------------------------- RiskManager, the other calls
\* evaluate_trade_opportunity testing the risk limits after the exposure and
\* the risk/reward ratio
EvaluateResult_limits_last(signal, current_price, df) ==
    LET position_type == IF signal.signal_type = "buy" THEN "long" ELSE "short"
        stop_loss == calculate_stop_loss(current_price, df, position_type)
        take_profit == calculate_take_profit(current_price, stop_loss, df, position_type)
        position_size == calculate_position_size(signal.strength, current_price, stop_loss)
    IN IF current_price = 0
       THEN Call("evaluate_trade_opportunity", "ZeroDivisionError", <<>>)
       ELSE IF ~can_open_position(position_size.dollar_amount)
       THEN Call("evaluate_trade_opportunity", "Exceeds portfolio exposure limits", <<>>)
       ELSE IF current_price = stop_loss
       THEN Call("evaluate_trade_opportunity", "ZeroDivisionError", <<>>)
       ELSE IF Abs(take_profit - current_price)
                 < min_risk_reward_ratio * Abs(current_price - stop_loss)
       THEN Call("evaluate_trade_opportunity", "Risk/reward ratio below minimum", <<>>)
       ELSE IF ~check_risk_limits
       THEN Call("evaluate_trade_opportunity", "Risk limits exceeded", <<>>)
       ELSE Call("evaluate_trade_opportunity", "approved",
                 [position_size |-> position_size,
                  stop_loss |-> stop_loss,
                  take_profit |-> take_profit,
                  risk_reward_ratio |-> Abs(take_profit - current_price)
                                         \div Abs(current_price - stop_loss),
                  position_type |-> position_type])

\* what evaluate_trade_opportunity returns in the current state.  A price of 0
\* (a Python float, as the signature declares) makes the sizer's
\* abs(current_price - stop_loss_price) / current_price raise ZeroDivisionError;
\* the exception leaves the call with nothing assigned.
\* evaluate_trade_opportunity, line 45, taking only a sell for a short
position_type_of_sell_only(signal) ==
    IF signal.signal_type = "sell" THEN "short" ELSE "long"

\* evaluate_trade_opportunity, line 45: the side traded on a signal
position_type_of(signal) ==
    IF signal.signal_type = "buy" THEN "long" ELSE "short"

EvaluateResult(signal, current_price, df) ==
    IF ~check_risk_limits
    THEN Call("evaluate_trade_opportunity", "Risk limits exceeded", <<>>)
    ELSE LET position_type == position_type_of(signal)
             stop_loss == calculate_stop_loss(current_price, df, position_type)
             take_profit == calculate_take_profit(current_price, stop_loss, df, position_type)
             position_size == calculate_position_size(signal.strength, current_price, stop_loss)
         IN IF current_price = 0
            THEN Call("evaluate_trade_opportunity", "ZeroDivisionError", <<>>)
            ELSE IF ~can_open_position(position_size.dollar_amount)
            THEN Call("evaluate_trade_opportunity",
                      "Exceeds portfolio exposure limits", <<>>)
            ELSE IF current_price = stop_loss
            THEN Call("evaluate_trade_opportunity", "ZeroDivisionError", <<>>)
            ELSE IF Abs(take_profit - current_price)
                      < min_risk_reward_ratio * Abs(current_price - stop_loss)
            THEN Call("evaluate_trade_opportunity", "Risk/reward ratio below minimum", <<>>)
            ELSE Call("evaluate_trade_opportunity", "approved",
                      [position_size |-> position_size,
                       stop_loss |-> stop_loss,
                       take_profit |-> take_profit,
                       risk_reward_ratio |-> Abs(take_profit - current_price)
                                              \div Abs(current_price - stop_loss),
                       position_type |-> position_type])

\* evaluate_trade_opportunity reserving the exposure of the size it approves
evaluate_trade_opportunity_reserving(signal, current_price, df) ==
    LET result == EvaluateResult(signal, current_price, df)
    IN /\ last' = result
       /\ current_exposure' =
              IF result.res = "approved"
              THEN update_exposure(result.val.position_size.dollar_amount, "add")
              ELSE current_exposure
       /\ UNCHANGED <<positions, trade_history, daily_pnl, current_capital,
                      peak_capital, consecutive_losses, today, orders, calls>>

evaluate_trade_opportunity(signal, current_price, df) ==
    /\ last' = EvaluateResult(signal, current_price, df)
    /\ UNCHANGED <<ledger, today, orders, calls>>

\* _process_signal opening the position with the dollar amount as its units
process_signal_dollars_as_units(position_id, signal, current_price, df) ==
    LET trade_eval == EvaluateResult(signal, current_price, df)
    IN IF trade_eval.res # "approved"
       THEN /\ last' = trade_eval
            /\ UNCHANGED <<ledger, today, orders, calls>>
       ELSE add_position(position_id, current_price,
                         trade_eval.val.position_size.dollar_amount,
                         trade_eval.val.stop_loss, trade_eval.val.take_profit,
                         trade_eval.val.position_type)

\* TradingBot._process_signal: the signal is evaluated at the last close and,
\* when approved, the position is opened at that price with the approved units
\* and levels; nothing runs between the evaluation and the open.  position_id
\* is the id the timestamp gives, one no open position has
process_signal(position_id, signal, current_price, df) ==
    LET trade_eval == EvaluateResult(signal, current_price, df)
    IN IF trade_eval.res # "approved"
       THEN /\ last' = trade_eval
            /\ UNCHANGED <<ledger, today, orders, calls>>
       ELSE add_position(position_id, current_price,
                         trade_eval.val.position_size.units,
                         trade_eval.val.stop_loss, trade_eval.val.take_profit,
                         trade_eval.val.position_type)

\* the stop and the target evaluate_trade_opportunity computes for an entry
\* (lines 47-51), applied on their own
calculate_levels(entry_price, df, position_type) ==
    LET stop_loss == calculate_stop_loss(entry_price, df, position_type)
        take_profit == calculate_take_profit(entry_price, stop_loss, df, position_type)
    IN /\ last' = Call("calculate_levels", "ok",
                       [entry_price |-> entry_price,
                        position_type |-> position_type,
                        stop_loss |-> stop_loss,
                        take_profit |-> take_profit])
       /\ UNCHANGED <<ledger, today, orders, calls>>

\* calculate_stop_loss applied on its own with a method
stop_loss_for(entry_price, df, position_type, method) ==
    /\ last' = Call("calculate_stop_loss", "ok",
                    [entry_price |-> entry_price,
                     df |-> df,
                     position_type |-> position_type,
                     method |-> method,
                     stop_loss |-> calculate_stop_loss_by(entry_price, df,
                                                         position_type, method)])
    /\ UNCHANGED <<ledger, today, orders, calls>>

\* calculate_trailing_stop applied on its own
trail_stop(current_price, entry_price, current_stop, position_type) ==
    /\ last' = Call("calculate_trailing_stop", "ok",
                    [current_price |-> current_price,
                     entry_price |-> entry_price,
                     current_stop |-> current_stop,
                     position_type |-> position_type,
                     new_stop |-> calculate_trailing_stop(current_price, entry_price,
                                                          current_stop, position_type)])
    /\ UNCHANGED <<ledger, today, orders, calls>>

\* update_position_pnl marking every open position at the price it is given
update_position_pnl_marking_all(position_id, current_price) ==
    /\ IF position_id \notin DOMAIN positions
       THEN UNCHANGED positions
       ELSE positions' = [id \in DOMAIN positions |->
                             [positions[id] EXCEPT !.unrealized_pnl =
                                  PositionPnl(positions[id], current_price)]]
    /\ last' = Call("update_position_pnl", "ok", <<>>)
    /\ UNCHANGED <<trade_history, daily_pnl, current_capital, peak_capital,
                   consecutive_losses, current_exposure, today, orders, calls>>

update_position_pnl(position_id, current_price) ==
    /\ IF position_id \notin DOMAIN positions
       THEN UNCHANGED positions
       ELSE positions' = [positions EXCEPT ![position_id].unrealized_pnl =
                              PositionPnl(positions[position_id], current_price)]
    /\ last' = Call("update_position_pnl", "ok", <<>>)
    /\ UNCHANGED <<trade_history, daily_pnl, current_capital, peak_capital,
                   consecutive_losses, current_exposure, today, orders, calls>>

update_trailing_stop(position_id, current_price) ==
    /\ IF position_id \notin DOMAIN positions
       THEN UNCHANGED positions
       ELSE positions' = [positions EXCEPT ![position_id].stop_loss =
                              calculate_trailing_stop(current_price,
                                                      positions[position_id].entry_price,
                                                      positions[position_id].stop_loss,
                                                      positions[position_id].position_type)]
    /\ last' = Call("update_trailing_stop", "ok", <<>>)
    /\ UNCHANGED <<trade_history, daily_pnl, current_capital, peak_capital,
                   consecutive_losses, current_exposure, today, orders, calls>>

\* check_stop_loss_hit comparing strictly
check_stop_loss_hit_strict(position_id, current_price) ==
    /\ last' = Call("check_stop_loss_hit", "ok",
                    IF position_id \notin DOMAIN positions THEN FALSE
                    ELSE IF positions[position_id].position_type = "long"
                    THEN current_price < positions[position_id].stop_loss
                    ELSE current_price > positions[position_id].stop_loss)
    /\ UNCHANGED <<ledger, today, orders, calls>>

\* check_stop_loss_hit: the returned bool is the val of the call
check_stop_loss_hit(position_id, current_price) ==
    /\ last' = Call("check_stop_loss_hit", "ok",
                    IF position_id \notin DOMAIN positions THEN FALSE
                    ELSE IF positions[position_id].position_type = "long"
                    THEN current_price <= positions[position_id].stop_loss
                    ELSE current_price >= positions[position_id].stop_loss)
    /\ UNCHANGED <<ledger, today, orders, calls>>

check_take_profit_hit(position_id, current_price) ==
    /\ last' = Call("check_take_profit_hit", "ok",
                    IF position_id \notin DOMAIN positions THEN FALSE
                    ELSE IF positions[position_id].position_type = "long"
                    THEN current_price >= positions[position_id].take_profit
                    ELSE current_price <= positions[position_id].take_profit)
    /\ UNCHANGED <<ledger, today, orders, calls>>

\* the sum of the pnl of the trades of a history that are wins ("win"), losses
\* ("loss") or any ("all")
RECURSIVE SumPnl(_, _)
SumPnl(history, which) ==
    IF history = <<>> THEN 0
    ELSE LET pnl == Head(history).pnl
             counted == \/ which = "all"
                        \/ which = "win" /\ pnl > 0
                        \/ which = "loss" /\ pnl < 0
         IN (IF counted THEN pnl ELSE 0) + SumPnl(Tail(history), which)

\* a profit factor: the float gross_profit / gross_loss as the pair num / den,
\* or float('inf')
Ratio(num, den) == [infinite |-> FALSE, num |-> num, den |-> den]
Infinite == [infinite |-> TRUE, num |-> 0, den |-> 1]

\* _calculate_profit_factor returning 0 whenever there is no loss
calculate_profit_factor_zero ==
    LET gross_profit == SumPnl(trade_history, "win")
        gross_loss == Abs(SumPnl(trade_history, "loss"))
    IN IF gross_loss = 0 THEN Ratio(0, 1)
       ELSE Ratio(gross_profit, gross_loss)

calculate_profit_factor ==
    LET gross_profit == SumPnl(trade_history, "win")
        gross_loss == Abs(SumPnl(trade_history, "loss"))
    IN IF gross_loss = 0
       THEN IF gross_profit > 0 THEN Infinite ELSE Ratio(0, 1)
       ELSE Ratio(gross_profit, gross_loss)

\* the metrics dict, without its float ratios other than the profit factor
\* (total_return, current_drawdown, max_drawdown, win_rate, avg_win, avg_loss,
\* sharpe_ratio); their divisions are guarded or by peak_capital > 0
PortfolioMetrics ==
    [current_capital |-> current_capital,
     total_pnl |-> SumPnl(trade_history, "all"),
     total_trades |-> Len(trade_history),
     winning_trades |-> Cardinality({i \in DOMAIN trade_history : trade_history[i].pnl > 0}),
     losing_trades |-> Cardinality({i \in DOMAIN trade_history : trade_history[i].pnl < 0}),
     profit_factor |-> calculate_profit_factor,
     current_positions |-> Cardinality(DOMAIN positions),
     current_exposure |-> current_exposure]

\* get_portfolio_metrics clearing the losing streak as it reports
get_portfolio_metrics_resetting ==
    /\ last' = Call("get_portfolio_metrics", "ok", PortfolioMetrics)
    /\ consecutive_losses' = 0
    /\ UNCHANGED <<positions, trade_history, daily_pnl, current_capital, peak_capital,
                   current_exposure, today, orders, calls>>

get_portfolio_metrics ==
    /\ last' = Call("get_portfolio_metrics", "ok", PortfolioMetrics)
    /\ UNCHANGED <<positions, trade_history, daily_pnl, current_capital, peak_capital,
                   consecutive_losses, current_exposure, today, orders, calls>>

\* ------------------------------------------------- MoneroTradingBot
\* the ledger as one value, for the calls _monitor_positions makes in a row
Ledger ==
    [positions |-> positions,
     trade_history |-> trade_history,
     daily_pnl |-> daily_pnl,
     current_capital |-> current_capital,
     peak_capital |-> peak_capital,
     consecutive_losses |-> consecutive_losses,
     current_exposure |-> current_exposure]

\* the open ids of a ledger in the order positions.items() yields them: the
\* order of insertion, which for the ids the bot gives (timestamps) is the
\* ascending one
RECURSIVE items(_)
items(ids) ==
    IF ids = {} THEN <<>>
    ELSE LET first == CHOOSE x \in ids : \A y \in ids : x <= y
         IN <<first>> \o items(ids \ {first})

\* _monitor_positions, lines 160-163, testing the target before the stop
close_reason_target_first(position, current_price) ==
    IF (IF position.position_type = "long" THEN current_price >= position.take_profit
        ELSE current_price <= position.take_profit)
    THEN "take_profit"
    ELSE IF (IF position.position_type = "long" THEN current_price <= position.stop_loss
             ELSE current_price >= position.stop_loss)
    THEN "stop_loss"
    ELSE "none"

\* _monitor_positions, lines 160-163: check_stop_loss_hit, else
\* check_take_profit_hit, on one open position
close_reason(position, current_price) ==
    IF (IF position.position_type = "long" THEN current_price <= position.stop_loss
        ELSE current_price >= position.stop_loss)
    THEN "stop_loss"
    ELSE IF (IF position.position_type = "long" THEN current_price >= position.take_profit
             ELSE current_price <= position.take_profit)
    THEN "take_profit"
    ELSE "none"

\* _monitor_positions, lines 156-163: the (position_id, reason) pairs collected
\* over the open positions, in their order
RECURSIVE positions_to_close(_, _, _)
positions_to_close(L, order, current_price) ==
    IF order = <<>> THEN <<>>
    ELSE LET reason == close_reason(L.positions[Head(order)], current_price)
             rest == positions_to_close(L, Tail(order), current_price)
         IN IF reason = "none" THEN rest ELSE <<<<Head(order), reason>>>> \o rest

\* update_position_pnl on every open position of a ledger (line 158)
marked_ledger(L, current_price) ==
    [L EXCEPT !.positions =
        [id \in DOMAIN L.positions |->
            [L.positions[id] EXCEPT !.unrealized_pnl =
                PositionPnl(L.positions[id], current_price)]]]

\* close_position on an open id of a ledger; the bot's entry prices and units
\* are numpy floats, so a zero notional books a nan return
closed_ledger(L, position_id, exit_price, reason) ==
    LET position == L.positions[position_id]
        pnl == PositionPnl(position, exit_price)
        notional == position.entry_price * position.units
        trade_result == [position_id |-> position_id,
                         entry_price |-> position.entry_price,
                         exit_price |-> exit_price,
                         units |-> position.units,
                         position_type |-> position.position_type,
                         pnl |-> pnl,
                         return_pct |-> IF notional = 0 THEN NaN
                                        ELSE (pnl * 100) \div notional,
                         entry_time |-> position.entry_time,
                         exit_time |-> today,
                         duration |-> today - position.entry_time,
                         reason |-> reason]
        capital == L.current_capital + pnl
    IN [positions |-> [id \in DOMAIN L.positions \ {position_id} |-> L.positions[id]],
        trade_history |-> Append(L.trade_history, trade_result),
        daily_pnl |-> [d \in DOMAIN L.daily_pnl \cup {today} |->
                          (IF d \in DOMAIN L.daily_pnl THEN L.daily_pnl[d] ELSE 0)
                          + (IF d = today THEN pnl ELSE 0)],
        current_capital |-> capital,
        peak_capital |-> IF capital > L.peak_capital THEN capital ELSE L.peak_capital,
        consecutive_losses |-> IF pnl < 0 THEN L.consecutive_losses + 1 ELSE 0,
        current_exposure |-> Max(0, Min(portfolio_value, L.current_exposure - notional))]

\* _monitor_positions, lines 165-169: the collected positions closed one after
\* the other at the current price
RECURSIVE close_all(_, _, _)
close_all(L, to_close, current_price) ==
    IF to_close = <<>> THEN L
    ELSE close_all(closed_ledger(L, Head(to_close)[1], current_price, Head(to_close)[2]),
                   Tail(to_close), current_price)

\* _monitor_positions from the price fetch on: nothing runs between the marks,
\* the checks and the closes.  current_price is the best bid, 0 when there is
\* none.  With no position open the call returns before fetching a price
monitor_positions(current_price) ==
    IF DOMAIN positions = {}
    THEN /\ last' = Call("_monitor_positions", "ok", <<>>)
         /\ UNCHANGED <<ledger, today, orders, calls>>
    ELSE LET marked == marked_ledger(Ledger, current_price)
             to_close == positions_to_close(marked, items(DOMAIN positions), current_price)
             L == close_all(marked, to_close, current_price)
         IN /\ positions' = L.positions
            /\ trade_history' = L.trade_history
            /\ daily_pnl' = L.daily_pnl
            /\ current_capital' = L.current_capital
            /\ peak_capital' = L.peak_capital
            /\ consecutive_losses' = L.consecutive_losses
            /\ current_exposure' = L.current_exposure
            /\ last' = Call("_monitor_positions", "ok", to_close)
            /\ UNCHANGED <<today, orders, calls>>

\* the id of the next paper position: a timestamp later than every id used
NextId ==
    LET used == DOMAIN positions \cup {trade_history[i].position_id : i \in DOMAIN trade_history}
    IN IF used = {} THEN 1 ELSE 1 + CHOOSE x \in used : \A y \in used : y <= x

\* run_twice_daily_checks: the trading loop, one step for each stretch of code
\* between two awaits; last.op tells where the loop is.  The other task of
\* the bot, the alert processor, runs while the loop is suspended in an await
\* and touches nothing of the ledger
\* line 80: the await of the market data; the frame may come back empty
fetch_aggregated_ohlcv ==
    /\ last.op \in {"init", "sleep"}
    /\ \E outcome \in {"ok", "empty"} :
          last' = Call("fetch_aggregated_ohlcv", outcome, <<>>)
    /\ UNCHANGED <<ledger, today, orders, calls>>

\* the loop is past the signal, with or without one (lines 97-101)
PastSignal ==
    \/ last.op = "fetch_aggregated_ohlcv" /\ last.res = "ok"
    \/ last.op \in {"add_position", "evaluate_trade_opportunity"}

\* line 101 with an await between the evaluation and the open
bot_process_signal_suspending(signal, current_price, df, max_ids) ==
    \/ /\ last.op = "fetch_aggregated_ohlcv" /\ last.res = "ok"
       /\ NextId <= max_ids
       /\ evaluate_trade_opportunity(signal, current_price, df)
    \/ /\ last.op = "evaluate_trade_opportunity" /\ last.res = "approved"
       /\ add_position(NextId, current_price, last.val.position_size.units,
                       last.val.stop_loss, last.val.take_profit, last.val.position_type)

\* line 101: _process_signal on the aggregated signal, which has no await
bot_process_signal(signal, current_price, df, max_ids) ==
    /\ last.op = "fetch_aggregated_ohlcv" /\ last.res = "ok"
    /\ NextId <= max_ids
    /\ process_signal(NextId, signal, current_price, df)

\* _monitor_positions, line 153: the await of the ticker, with a position open
fetch_best_bid_ask(best_bid) ==
    /\ PastSignal
    /\ DOMAIN positions # {}
    /\ last' = Call("fetch_best_bid_ask", "ok", best_bid)
    /\ UNCHANGED <<ledger, today, orders, calls>>

\* line 104: _monitor_positions after its await, or returning at line 150
bot_monitor_positions ==
    \/ /\ last.op = "fetch_best_bid_ask"
       /\ monitor_positions(last.val)
    \/ /\ PastSignal
       /\ DOMAIN positions = {}
       /\ monitor_positions(0)

\* line 107
bot_get_portfolio_metrics ==
    /\ last.op = "_monitor_positions"
    /\ get_portfolio_metrics

\* lines 89 and 111: the sleep to the next check, into the next day or not
sleep ==
    /\ \/ last.op = "get_portfolio_metrics"
       \/ last.op = "fetch_aggregated_ohlcv" /\ last.res = "empty"
    /\ \/ UNCHANGED today
       \/ today < MaxDay /\ today' = today + 1
    /\ last' = Call("sleep", "ok", <<>>)
    /\ UNCHANGED <<ledger, orders, calls>>

\* the clock: datetime.now().date() moves to the next day
Tick ==
    /\ today < MaxDay
    /\ today' = today + 1
    /\ last' = Call("tick", "ok", <<>>)
    /\ UNCHANGED <<ledger, orders, calls>>

\* --------------------------------------------------------- OrderManager
\* Order.exchange_order_id before the exchange has given one
None == 0

Order(order_type) ==
    [status |-> "pending", exchange_order_id |-> None, order_type |-> order_type]

\* the id of the next order: a timestamp later than every id used
NextOrderId == Cardinality(DOMAIN orders) + 1

\* lines 101-108: the order types place_order knows how to send
Supported(order_type) == order_type \in {"market", "limit", "stop_loss"}

\* place_order, lines 117-123, going on for one attempt more
after_failure_stubborn(attempt, made) ==
    IF attempt < retry_attempts
    THEN [attempt |-> attempt, at |-> "sleep", made |-> made]
    ELSE [attempt |-> attempt, at |-> "raised", made |-> made]

\* place_order, lines 117-123: the except branch of attempt number `attempt`
\* (from 0), with `made` calls of the exchange so far: sleep and go on, or
\* mark the order failed and raise
after_failure(attempt, made) ==
    IF attempt < retry_attempts - 1
    THEN [attempt |-> attempt, at |-> "sleep", made |-> made]
    ELSE [attempt |-> attempt, at |-> "raised", made |-> made]

\* place_order, lines 100-108: the try of attempt number `attempt`, up to its
\* await of the exchange; an unsupported type raises ValueError before it
begin_attempt(order_type, attempt, made) ==
    IF Supported(order_type)
    THEN [attempt |-> attempt, at |-> "create_order", made |-> made + 1]
    ELSE after_failure(attempt, made)

\* the call of place_order for an order moves to `call`; when it raises, the
\* order is marked failed first (line 122)
place_moves(order_id, call) ==
    /\ calls' = [k \in DOMAIN calls \cup {<<"place_order", order_id>>} |->
                    IF k = <<"place_order", order_id>> THEN call ELSE calls[k]]
    /\ IF call.at = "raised"
       THEN /\ orders' = [orders EXCEPT ![order_id].status = "failed"]
            /\ last' = Call("place_order", "raised", order_id)
       ELSE UNCHANGED <<orders, last>>

\* place_order, lines 86-108: the order is registered and the first attempt
\* begun
place_order(order_type, max_orders) ==
    LET order_id == NextOrderId
        call == begin_attempt(order_type, 0, 0)
    IN /\ order_id <= max_orders
       /\ orders' = [id \in DOMAIN orders \cup {order_id} |->
                        IF id = order_id THEN Order(order_type) ELSE orders[id]]
       /\ calls' = [k \in DOMAIN calls \cup {<<"place_order", order_id>>} |->
                       IF k = <<"place_order", order_id>> THEN call ELSE calls[k]]
       /\ UNCHANGED <<ledger, today, last>>

\* the await of exchange.create_order ends: with a response (lines 110-115) or
\* with an exception (lines 117-123)
create_order_returns(order_id, outcome) ==
    /\ <<"place_order", order_id>> \in DOMAIN calls
    /\ calls[<<"place_order", order_id>>].at = "create_order"
    /\ LET call == calls[<<"place_order", order_id>>]
       IN IF outcome = "ok"
          THEN /\ orders' = [orders EXCEPT ![order_id].exchange_order_id = order_id,
                                           ![order_id].status = "open"]
               /\ calls' = [calls EXCEPT ![<<"place_order", order_id>>].at = "returned"]
               /\ last' = Call("place_order", "ok", order_id)
          ELSE place_moves(order_id, after_failure(call.attempt, call.made))
    /\ UNCHANGED <<ledger, today>>

\* the await of asyncio.sleep at line 120 ends and the next attempt begins
sleep_returns(order_id) ==
    /\ <<"place_order", order_id>> \in DOMAIN calls
    /\ calls[<<"place_order", order_id>>].at = "sleep"
    /\ LET call == calls[<<"place_order", order_id>>]
       IN place_moves(order_id,
                      begin_attempt(orders[order_id].order_type, call.attempt + 1, call.made))
    /\ UNCHANGED <<ledger, today>>

\* cancel_order marking the order cancelled before it asks the exchange
cancel_order_eager(order_id) ==
    /\ <<"cancel_order", order_id>> \notin DOMAIN calls
    /\ IF order_id \notin DOMAIN orders
       THEN /\ last' = Call("cancel_order", "False", order_id)
            /\ UNCHANGED <<orders, calls>>
       ELSE IF orders[order_id].status \in {"filled", "cancelled"}
       THEN /\ last' = Call("cancel_order", "False", order_id)
            /\ UNCHANGED <<orders, calls>>
       ELSE /\ calls' = [k \in DOMAIN calls \cup {<<"cancel_order", order_id>>} |->
                            IF k = <<"cancel_order", order_id>>
                            THEN [attempt |-> 0, at |-> "cancel_order", made |-> 1]
                            ELSE calls[k]]
            /\ orders' = [orders EXCEPT ![order_id].status = "cancelled"]
            /\ UNCHANGED last
    /\ UNCHANGED <<ledger, today>>

\* cancel_order, lines 155-169: up to the await of exchange.cancel_order
cancel_order(order_id) ==
    /\ <<"cancel_order", order_id>> \notin DOMAIN calls
    /\ IF order_id \notin DOMAIN orders
       THEN /\ last' = Call("cancel_order", "False", order_id)
            /\ UNCHANGED <<orders, calls>>
       ELSE IF orders[order_id].status \in {"filled", "cancelled"}
       THEN /\ last' = Call("cancel_order", "False", order_id)
            /\ UNCHANGED <<orders, calls>>
       ELSE /\ calls' = [k \in DOMAIN calls \cup {<<"cancel_order", order_id>>} |->
                            IF k = <<"cancel_order", order_id>>
                            THEN [attempt |-> 0, at |-> "cancel_order", made |-> 1]
                            ELSE calls[k]]
            /\ UNCHANGED <<orders, last>>
    /\ UNCHANGED <<ledger, today>>

\* cancel_order, lines 170-177: the await of exchange.cancel_order ends
cancel_order_returns(order_id, outcome) ==
    /\ <<"cancel_order", order_id>> \in DOMAIN calls
    /\ calls' = [k \in DOMAIN calls \ {<<"cancel_order", order_id>>} |-> calls[k]]
    /\ IF outcome = "ok"
       THEN /\ orders' = [orders EXCEPT ![order_id].status = "cancelled"]
            /\ last' = Call("cancel_order", "True", order_id)
       ELSE /\ last' = Call("cancel_order", "False", order_id)
            /\ UNCHANGED orders
    /\ UNCHANGED <<ledger, today>>

\* check_order_status, lines 179-208, from the end of its await of
\* exchange.fetch_order: the status the exchange reports is taken over
check_order_status(order_id, exchange_status) ==
    /\ order_id \in DOMAIN orders
    /\ orders' = [orders EXCEPT ![order_id].status =
                      IF exchange_status = "closed" THEN "filled"
                      ELSE IF exchange_status = "canceled" THEN "cancelled"
                      ELSE IF exchange_status = "open_filled" THEN "partially_filled"
                      ELSE IF exchange_status = "open" THEN "open"
                      ELSE @]
    /\ last' = Call("check_order_status", "ok", order_id)
    /\ UNCHANGED <<ledger, today, calls>>

\* ------------------------------------------------------------ behaviours
Init ==
    /\ positions = <<>>
    /\ trade_history = <<>>
    /\ daily_pnl = <<>>
    /\ current_capital = initial_capital
    /\ peak_capital = initial_capital
    /\ consecutive_losses = 0
    /\ current_exposure = 0
    /\ today = 1
    /\ last = Call("init", "ok", <<>>)
    /\ orders = <<>>
    /\ calls = <<>>

Reasons == {"manual"}
Signal(signal_type, strength) == [signal_type |-> signal_type, strength |-> strength]

\* the protective levels a caller opens a position with: a stop d away from the
\* entry on the losing side, a target min_risk_reward_ratio * d away on the other
StopAt(e, s, d) == IF s = "long" THEN e - d ELSE e + d
TargetAt(e, s, d) ==
    IF s = "long" THEN e + min_risk_reward_ratio * d ELSE e - min_risk_reward_ratio * d

\* one call that opens, closes or evaluates, with its arguments drawn from the
\* given sets; at most maxTrades closes succeed
StepLedger(ids, entryPrices, unitsSet, sides, stopDistances, exitPrices, signals, evalPrices, frames, maxTrades) ==
    \/ \E id \in ids, e \in entryPrices, u \in unitsSet, s \in sides, d \in stopDistances :
          add_position(id, e, u, StopAt(e, s, d), TargetAt(e, s, d), s)
    \/ \E id \in ids, p \in exitPrices, r \in Reasons :
          /\ id \in DOMAIN positions => Len(trade_history) < maxTrades
          /\ close_position(id, p, r)
    \/ \E sig \in signals, p \in evalPrices, df \in frames :
          evaluate_trade_opportunity(sig, p, df)

\* one call that marks a position to market or trails its stop
StepMark(ids, markPrices) ==
    \/ \E id \in ids, p \in markPrices : update_position_pnl(id, p)
    \/ \E id \in ids, p \in markPrices : update_trailing_stop(id, p)

\* one call that asks whether a price has hit a position's stop or target
StepCheck(ids, checkPrices) ==
    \/ \E id \in ids, p \in checkPrices : check_stop_loss_hit(id, p)
    \/ \E id \in ids, p \in checkPrices : check_take_profit_hit(id, p)

\* Spec: every call on the ledger within one day; two ids, both sides, positions
\* of 60% of the portfolio each, closed at a loss, at the entry price or at a profit
Ids == {"p1", "p2"}
EntryPrices == {100}
UnitsSet == {60}
Sides == {"long", "short"}
StopDistances == {2}
ExitPrices == {50, 100}
MarkPrices == {150}
Signals == {Signal("buy", 100)}
EvalPrices == {100}
Frames == {Frame(FALSE, 0)}

Next ==
    \/ StepLedger(Ids, EntryPrices, UnitsSet, Sides, StopDistances, ExitPrices,
                  Signals, EvalPrices, Frames, MaxTrades)
    \/ StepMark(Ids, MarkPrices)

Spec == Init /\ [][Next]_vars

\* SpecStreak: long runs of closes over several days; one id, long positions of
\* one size, closed at a large loss, a small loss or a profit
StreakIds == {"p1"}
StreakUnits == {20}
StreakSides == {"long"}
StreakExitPrices == {50, 99, 150}
StreakSignals == {Signal("buy", 100)}
StreakFrames == {Frame(TRUE, 1)}

NextStreak ==
    \/ StepLedger(StreakIds, EntryPrices, StreakUnits, StreakSides, StopDistances,
                  StreakExitPrices, StreakSignals, EvalPrices, StreakFrames,
                  MaxStreakTrades)
    \/ Tick

SpecStreak == Init /\ [][NextStreak]_vars

\* SpecEval: evaluate with every kind of signal, zero, negative and positive
\* prices and frames with and without an atr, between opens and closes of long
\* positions of 20% of the portfolio each
EvalUnits == {20}
EvalSides == {"long"}
EvalExitPrices == {50, 150}
AnySignal == {Signal(t, g) : t \in {"buy", "sell", "hold"}, g \in {0, 50, 100}}
AnyPrice == {-100, 0, 100, 200}
AnyFrame == {Frame(FALSE, 0)} \cup {Frame(TRUE, a) : a \in {0, 1, 2, 3}}

NextEval ==
    StepLedger(Ids, EntryPrices, EvalUnits, EvalSides, StopDistances, EvalExitPrices,
               AnySignal, AnyPrice, AnyFrame, MaxEvalTrades)

SpecEval == Init /\ [][NextEval]_vars

\* SpecTrail: one position of either side entered at 200 and marked and trailed
\* at prices below, at and above the entry, down to a price of 0
TrailIds == {"p1"}
TrailEntryPrices == {200}
TrailUnits == {10}
TrailStopDistances == {4}
TrailExitPrices == {200}
TrailPrices == {0, 50, 100, 150, 200, 250, 300}
\* prices to check against the levels: below, on and above the stop and the
\* target a position is opened with, and on a trailed stop
CheckPrices == {150, 192, 196, 200, 204, 208, 245, 250}

NextTrail ==
    \/ StepLedger(TrailIds, TrailEntryPrices, TrailUnits, Sides, TrailStopDistances,
                  TrailExitPrices, Signals, EvalPrices, Frames, MaxTrades)
    \/ StepMark(TrailIds, TrailPrices)
    \/ StepCheck(TrailIds, CheckPrices)

SpecTrail == Init /\ [][NextTrail]_vars

\* SpecSize: calculate_position_size with each method, between opens and flat
\* closes that move the exposure in steps of 5% of the portfolio through the
\* 30% limit.  Strengths, prices and stops keep every division exact.
SizeIds == {"p1"}
SizeUnits == {5, 25}
SizeSides == {"long"}
SizeExitPrices == {100}
SizeCalls == ({"fixed_fractional", "volatility_adjusted", "other"} \X {0, 5, 10, 100}) \cup ({"kelly_criterion"} \X {0, 16, 160})
SizePrices == {-100, 0, 100}
SizeMoves == {-2, 0, 1, 2, 5}

NextSize ==
    \/ StepLedger(SizeIds, EntryPrices, SizeUnits, SizeSides, StopDistances, SizeExitPrices,
                  Signals, EvalPrices, Frames, MaxSizeTrades)
    \/ \E call \in SizeCalls, current_price \in SizePrices, move \in SizeMoves :
          calculate_position_size_by(call[2], current_price, current_price - move, call[1])

SpecSize == Init /\ [][NextSize]_vars

\* SpecOps: every call of the ledger and of the sizer on one long position of
\* 20% of the portfolio, closed at a loss, flat or at a profit
OpsIds == {"p1"}
OpsUnits == {20}
OpsSides == {"long"}
OpsExitPrices == {50, 100, 150}
OpsCheckPrices == {98, 104}
OpsSizeCalls == {<<"fixed_fractional", 100>>, <<"kelly_criterion", 16>>, <<"volatility_adjusted", 5>>}

NextOps ==
    \/ StepLedger(OpsIds, EntryPrices, OpsUnits, OpsSides, StopDistances, OpsExitPrices,
                  Signals, EvalPrices, Frames, MaxTrades)
    \/ StepMark(OpsIds, MarkPrices)
    \/ StepCheck(OpsIds, OpsCheckPrices)
    \/ \E call \in OpsSizeCalls : calculate_position_size_by(call[2], 100, 98, call[1])
    \/ get_portfolio_metrics

SpecOps == Init /\ [][NextOps]_vars

\* SpecPaired: positions are opened by _process_signal only, and closed at a
\* loss or at a profit
PairedIds == <<"p1", "p2", "p3", "p4">>
PairedSignals == {Signal("buy", 0), Signal("buy", 5), Signal("buy", 100), Signal("sell", 100)}
PairedPrices == {100}
PairedExitPrices == {50, 150}

\* the ids of PairedIds no open position has, as indices
FreeIds == {i \in DOMAIN PairedIds : PairedIds[i] \notin DOMAIN positions}
\* the id of the next timestamp: the first one free
FreshId == PairedIds[CHOOSE i \in FreeIds : \A j \in FreeIds : i <= j]

NextPaired ==
    \/ \E sig \in PairedSignals, p \in PairedPrices, df \in Frames :
          /\ FreeIds # {}
          /\ process_signal(FreshId, sig, p, df)
    \/ \E i \in DOMAIN PairedIds, p \in PairedExitPrices, r \in Reasons :
          /\ PairedIds[i] \in DOMAIN positions => Len(trade_history) < MaxPairedTrades
          /\ close_position(PairedIds[i], p, r)

SpecPaired == Init /\ [][NextPaired]_vars

\* SpecLocked: a caller that opens one position at a time, only through
\* _process_signal and at full strength, closes it at a total loss, a small
\* loss or a profit, over several days, and calls every other operation of
\* the ledger in between
LockIds == {"p1"}
LockSignals == {Signal("buy", 100)}
LockPrices == {100}
LockExitPrices == {0, 99, 150}
LockMarkPrices == {150}

NextLocked ==
    \/ \E id \in LockIds \ DOMAIN positions, sig \in LockSignals, p \in LockPrices, df \in Frames :
          process_signal(id, sig, p, df)
    \/ \E id \in LockIds, p \in LockExitPrices, r \in Reasons :
          /\ id \in DOMAIN positions => Len(trade_history) < MaxLockTrades
          /\ close_position(id, p, r)
    \/ \E sig \in LockSignals, p \in LockPrices, df \in Frames :
          evaluate_trade_opportunity(sig, p, df)
    \/ StepMark(LockIds, LockMarkPrices)
    \/ get_portfolio_metrics
    \/ Tick

SpecLocked == Init /\ [][NextLocked]_vars

\* SpecMonitor: monitoring cycles over positions of either side entered at 100
\* with the stop and the target on their usual sides, and over a long whose
\* levels are crossed so that both are hit at once; the price is missing (0),
\* below, between and above the levels
MonitorUnits == {10}
MonitorLevels == {<<"long", 98, 104>>, <<"short", 102, 96>>, <<"long", 111, 99>>}
MonitorPrices == {0, 97, 100, 103, 110}

NextMonitor ==
    \/ \E e \in EntryPrices, u \in MonitorUnits, l \in MonitorLevels :
          /\ NextId <= MaxMonitorIds
          /\ add_position(NextId, e, u, l[2], l[3], l[1])
    \/ \E p \in MonitorPrices : monitor_positions(p)

SpecMonitor == Init /\ [][NextMonitor]_vars

\* SpecLoop: the trading loop of the bot on buy, sell and hold signals at a
\* close of 100, with best bids missing (0), below, at and above the levels
LoopSignals == {Signal("buy", 100), Signal("sell", 100), Signal("hold", 50)}
LoopPrices == {100}
LoopBids == {0, 97, 100, 105}

NextLoop ==
    \/ fetch_aggregated_ohlcv
    \/ \E sig \in LoopSignals, p \in LoopPrices, df \in Frames :
          bot_process_signal(sig, p, df, MaxLoopIds)
    \/ \E bid \in LoopBids : fetch_best_bid_ask(bid)
    \/ bot_monitor_positions
    \/ bot_get_portfolio_metrics
    \/ sleep

SpecLoop == Init /\ [][NextLoop]_vars

\* SpecOrders: orders of a supported and of an unsupported type placed
\* against an exchange that answers or fails, cancelled and polled while the
\* placing is still retrying or after it
OrderTypes == {"market", "stop_loss", "take_profit"}
Outcomes == {"ok", "error"}
ExchangeStatuses == {"closed", "canceled", "open_filled", "open", "error"}
AnyOrderIds == 1..(MaxOrders + 1)

NextOrders ==
    \/ \E order_type \in OrderTypes : place_order(order_type, MaxOrders)
    \/ \E order_id \in AnyOrderIds, outcome \in Outcomes : create_order_returns(order_id, outcome)
    \/ \E order_id \in AnyOrderIds : sleep_returns(order_id)
    \/ \E order_id \in AnyOrderIds : cancel_order(order_id)
    \/ \E order_id \in AnyOrderIds, outcome \in Outcomes : cancel_order_returns(order_id, outcome)
    \/ \E order_id \in AnyOrderIds, st \in ExchangeStatuses : check_order_status(order_id, st)

SpecOrders == Init /\ [][NextOrders]_vars

\* SpecCalc: the stop and target calculators applied to positive entry prices,
\* both sides, and frames without an atr and with an atr below, within and
\* above the clamp of the stop distance
CalcPrices == {100 * k : k \in 1..MaxCalcPrice}
CalcFrames == {Frame(FALSE, 0)} \cup {Frame(TRUE, a) : a \in {0, 1, 2, 3, 5, 10, 20, 50, 100}}

\* trailing of a position entered at 5000: prices at the entry, exactly 2% and
\* more than 2% into the profit of either side, and stops on both sides of the
\* levels these prices trail to
CalcEntries == {5000}
CalcTrailPrices == {4500, 4850, 4900, 5000, 5100, 5150, 5500}
CalcStops == {4600, 4800, 4950, 5050, 5200, 5400}

\* histories for the stop methods, around an entry of 1000: a support at 970
\* and a resistance at 1030; falling lows and rising highs without a level;
\* levels on the wrong side of the entry; levels far beyond the widest stop;
\* a history of two rows.  Each with and without an atr, and with too few
\* returns or enough of them at a deviation below, within and above the clamp
StopMethods == {"atr", "percentage", "support_resistance", "volatility", "other"}
StopEntries == {1000}
Columns == {<< <<990, 980, 970, 980, 990>>, <<1010, 1020, 1030, 1020, 1010>> >>, << <<990, 980, 970, 960, 950>>, <<1010, 1020, 1030, 1040, 1050>> >>, << <<1030, 1020, 1010, 1020, 1030>>, <<970, 980, 990, 980, 970>> >>, << <<900, 850, 800, 850, 900>>, <<1100, 1150, 1200, 1150, 1100>> >>, << <<990, 980>>, <<1010, 1020>> >>}
Samples == {<<0, 0>>, <<19, 1>>, <<20, 0>>, <<20, 1>>, <<25, 4>>}
Histories == {History(a[1], a[2], c[1], c[2], r[1], r[2]) : a \in {<<FALSE, 0>>, <<TRUE, 15>>}, c \in Columns, r \in Samples}

NextCalc ==
    \/ \E entry_price \in StopEntries, df \in Histories, position_type \in Sides, method \in StopMethods :
          stop_loss_for(entry_price, df, position_type, method)
    \/ \E entry_price \in CalcPrices, df \in CalcFrames, position_type \in Sides :
          calculate_levels(entry_price, df, position_type)
    \/ \E current_price \in CalcTrailPrices, entry_price \in CalcEntries, current_stop \in CalcStops, position_type \in Sides :
          trail_stop(current_price, entry_price, current_stop, position_type)

SpecCalc == Init /\ [][NextCalc]_vars
\* ================================================================ claims

\* the entry notional (entry_price * units) of the open positions in ids
RECURSIVE OpenNotional(_)
OpenNotional(ids) ==
    IF ids = {} THEN 0
    ELSE LET id == CHOOSE x \in ids : TRUE
         IN positions[id].entry_price * positions[id].units + OpenNotional(ids \ {id})

\* the three risk limits, as the claims state them
DrawdownBreached == (peak_capital - current_capital) * 100 > max_drawdown * peak_capital
StreakBreached == consecutive_losses >= max_consecutive_losses
DailyLossBreached ==
    /\ today \in DOMAIN daily_pnl
    /\ (-daily_pnl[today]) * 100 > daily_loss_limit * initial_capital

\* the step appends one trade to trade_history: a close succeeded
CloseSucceeded == Len(trade_history') = Len(trade_history) + 1

\* C1: after any sequence of opens and closes, current_exposure is at most
\* max_portfolio_exposure and at least 0.
C1_ExposureWithinLimit ==
    /\ current_exposure >= 0
    /\ current_exposure * 100 <= max_portfolio_exposure * portfolio_value

\* C2: an add_position with an id that is already open fails with DuplicateId and
\* leaves the ledger as it was: the position's fields and current_exposure are kept.
C2_DuplicateOpenRejected ==
    [][\A id \in Ids, e \in EntryPrices, u \in UnitsSet, s \in Sides, d \in StopDistances :
          (/\ id \in DOMAIN positions
           /\ add_position(id, e, u, StopAt(e, s, d), TargetAt(e, s, d), s))
          => (last'.res = "DuplicateId" /\ UNCHANGED ledger)]_vars

\* C3: a close_position of an id that is not open returns the position-not-found
\* error and leaves capital, peak, streak, daily pnl, history, exposure and the
\* open positions unchanged.
C3_CloseUnknownChangesNothing ==
    [][\A id \in Ids, p \in ExitPrices, r \in Reasons :
          (id \notin DOMAIN positions /\ close_position(id, p, r))
          => (last'.res = "Position not found" /\ UNCHANGED ledger)]_vars

\* C3 witness: a close of an id that was closed before (a double close) has
\* returned the error.
C3_DoubleCloseSeen ==
    /\ last.op = "close_position"
    /\ last.res = "Position not found"
    /\ trade_history # <<>>
    /\ trade_history[Len(trade_history)].position_id \notin DOMAIN positions

\* C4: an id is single-use: no id that has been closed is open again.
C4_IdsAreSingleUse ==
    \A id \in DOMAIN positions :
        \A i \in 1..Len(trade_history) : trade_history[i].position_id # id

\* C5: a successful close with pnl < 0 adds exactly 1 to consecutive_losses, one
\* with pnl >= 0 sets it to 0, and no other step changes it.
C5_StreakCounter ==
    [][IF CloseSucceeded
       THEN LET pnl == trade_history'[Len(trade_history')].pnl
            IN IF pnl < 0
               THEN consecutive_losses' = consecutive_losses + 1
               ELSE consecutive_losses' = 0
       ELSE consecutive_losses' = consecutive_losses]_vars

\* C5 witness: a losing close brought the streak to 1 and a close with pnl = 0
\* after it set the streak back to 0.
C5_ResetByFlatClose ==
    /\ Len(trade_history) = 2
    /\ trade_history[1].pnl < 0
    /\ trade_history[2].pnl = 0
    /\ consecutive_losses = 0
    /\ last.op = "close_position"

\* C6: evaluate_trade_opportunity returns the risk-limits rejection, with no stop,
\* target or size computed, exactly when the drawdown exceeds max_drawdown, or
\* consecutive_losses >= max_consecutive_losses, or today's loss exceeds
\* daily_loss_limit * initial_capital.
C6_RiskLimitsRejection ==
    last.op = "evaluate_trade_opportunity"
    => /\ last.res = "Risk limits exceeded"
          <=> (DrawdownBreached \/ StreakBreached \/ DailyLossBreached)
       /\ last.res = "Risk limits exceeded" => last.val = <<>>

\* C6 witness: an evaluate was rejected for today's loss alone.
C6_RejectedForDailyLoss ==
    /\ last.op = "evaluate_trade_opportunity"
    /\ last.res = "Risk limits exceeded"
    /\ DailyLossBreached
    /\ ~DrawdownBreached
    /\ ~StreakBreached

\* the latest max_consecutive_losses closes were all losing
LosingRun ==
    /\ Len(trade_history) >= max_consecutive_losses
    /\ \A i \in (Len(trade_history) - max_consecutive_losses + 1)..Len(trade_history) :
           trade_history[i].pnl < 0

\* C7: after max_consecutive_losses losing closes in a row, and until a non-losing
\* close, every evaluate is rejected for the risk limits, whatever the signal, the
\* price and the price history.
C7_StreakBlocksEvaluate ==
    LosingRun
    => /\ \A sig \in AnySignal, p \in AnyPrice, df \in AnyFrame :
              EvaluateResult(sig, p, df).res = "Risk limits exceeded"
       /\ last.op = "evaluate_trade_opportunity" => last.res = "Risk limits exceeded"

\* C7 witness: an evaluate was rejected after a losing run, with neither the
\* drawdown nor today's loss over its limit.
C7_RejectedAfterLosingRun ==
    /\ LosingRun
    /\ last.op = "evaluate_trade_opportunity"
    /\ last.res = "Risk limits exceeded"
    /\ ~DrawdownBreached
    /\ ~DailyLossBreached

\* C8: no step lowers peak_capital, and a successful close sets it to the larger of
\* the previous peak and the new current_capital.
C8_PeakNeverLowered ==
    [][/\ peak_capital' >= peak_capital
       /\ CloseSucceeded => peak_capital' = Max(peak_capital, current_capital')
       /\ ~CloseSucceeded => peak_capital' = peak_capital]_vars

\* C8 witness: a losing close has left current_capital below a peak that stayed.
C8_LossBelowPeak ==
    /\ last.op = "close_position"
    /\ last.res = "ok"
    /\ current_capital < peak_capital

\* C9: between calls, peak_capital >= current_capital.
C9_PeakAtLeastCapital == peak_capital >= current_capital

\* C9 witness: a profitable close has raised the peak above the initial capital.
C9_PeakRaised ==
    /\ last.op = "close_position"
    /\ peak_capital > initial_capital
    /\ peak_capital = current_capital

\* C10: current_exposure is within [0, 1].
C10_ExposureInUnitInterval ==
    /\ current_exposure >= 0
    /\ current_exposure <= portfolio_value

\* C10 witness: the open positions' notional is above the portfolio value and
\* current_exposure stands at 1.
C10_ClampedAtOne ==
    /\ OpenNotional(DOMAIN positions) > portfolio_value
    /\ current_exposure = portfolio_value

\* C11 (fails on the code): in every reachable state current_exposure equals the
\* sum over the open positions of entry_price * units, divided by
\* portfolio_value.
C11_ExposureTracksOpenNotional ==
    current_exposure = OpenNotional(DOMAIN positions)

\* C12: evaluate is read-only: whether it approves, rejects or raises, positions,
\* trade_history, daily_pnl, current_capital, peak_capital, consecutive_losses
\* and current_exposure are after the call what they were before it.
C12_EvaluateReadOnly ==
    [][last'.op = "evaluate_trade_opportunity" => UNCHANGED ledger]_vars

\* C12 witness: an evaluate has approved a trade of positive size while a
\* position was open and a trade was in the history.
C12_ApprovedOverLedger ==
    /\ last.op = "evaluate_trade_opportunity"
    /\ last.res = "approved"
    /\ last.val.position_size.dollar_amount > 0
    /\ positions # <<>>
    /\ trade_history # <<>>

\* C13: whatever the prices of a sequence of update_trailing_stop calls on an
\* open position, each call leaves the stop_loss of a long position where it
\* was or higher, and that of a short position where it was or lower.
C13_TrailingStopOnlyTightens ==
    [][last'.op = "update_trailing_stop"
       => \A id \in DOMAIN positions :
              /\ id \in DOMAIN positions'
              /\ positions[id].position_type = "long"
                 => positions'[id].stop_loss >= positions[id].stop_loss
              /\ positions[id].position_type = "short"
                 => positions'[id].stop_loss <= positions[id].stop_loss]_vars

\* C13 witness: update_trailing_stop has run on a position whose stop was
\* trailed past its entry price and which has last been marked at a price
\* further from the stop than the price that set it.
C13_TrailedThenRetraced ==
    /\ last.op = "update_trailing_stop"
    /\ \E id \in DOMAIN positions :
           \/ /\ positions[id].position_type = "long"
              /\ positions[id].stop_loss = 294
              /\ positions[id].unrealized_pnl = (250 - 200) * positions[id].units
           \/ /\ positions[id].position_type = "short"
              /\ positions[id].stop_loss = 51
              /\ positions[id].unrealized_pnl = (200 - 150) * positions[id].units

\* C14: with the default configuration and an entry price above 0, the stop
\* and the target lie on the two sides of the entry: stop_loss < entry <
\* take_profit for a long, take_profit < entry < stop_loss for a short.
C14_LevelsAroundEntry ==
    last.op = "calculate_levels"
    => /\ last.val.position_type = "long"
          => /\ last.val.stop_loss < last.val.entry_price
             /\ last.val.entry_price < last.val.take_profit
       /\ last.val.position_type = "short"
          => /\ last.val.take_profit < last.val.entry_price
             /\ last.val.entry_price < last.val.stop_loss

\* C14 witness: the levels of a long at 100 on a frame whose atr is 0, where
\* only the minimum stop distance keeps the stop off the entry.
C14_MinimumDistanceLong ==
    /\ last.op = "calculate_levels"
    /\ last.val.position_type = "long"
    /\ last.val.entry_price = 100
    /\ last.val.stop_loss = 99
    /\ last.val.take_profit = 102

\* C15 (fails on the code): a successful close computes pnl = (exit - entry) *
\* units for a long and (entry - exit) * units for a short, adds pnl to
\* current_capital and to daily_pnl[today], reduces current_exposure by
\* entry * units / portfolio_value, removes the id from the open positions and
\* returns return_pct = pnl / (entry * units) * 100; a long of 10 units entered
\* at 100 and closed at 110 has pnl 100 and return_pct 10.
C15_CloseBookkeeping ==
    [][\A id \in DOMAIN positions :
          (last'.op = "close_position" /\ id \notin DOMAIN positions')
          => LET position == positions[id]
                 notional == position.entry_price * position.units
                 trade_result == trade_history'[Len(trade_history')]
                 pnl == IF position.position_type = "long"
                        THEN (trade_result.exit_price - position.entry_price) * position.units
                        ELSE (position.entry_price - trade_result.exit_price) * position.units
                 before == IF today \in DOMAIN daily_pnl THEN daily_pnl[today] ELSE 0
             IN /\ trade_result.position_id = id
                /\ trade_result.pnl = pnl
                /\ trade_result.return_pct * notional = pnl * 100
                /\ current_capital' = current_capital + pnl
                /\ daily_pnl'[today] = before + pnl
                /\ current_exposure' = current_exposure - notional
                /\ LET scenario == [entry_price |-> 100, units |-> 10,
                                     position_type |-> "long"]
                   IN /\ PositionPnl(scenario, 110) = 100
                      /\ (PositionPnl(scenario, 110) * 100) \div (100 * 10) = 10]_vars

\* C16: trade_history is append-only: a successful close leaves the entries
\* it had in place and adds one entry, for the closed position, at the end,
\* and no other call changes it.
C16_HistoryAppendOnly ==
    [][IF last'.op = "close_position" /\ last'.res = "ok"
       THEN /\ Len(trade_history') = Len(trade_history) + 1
            /\ SubSeq(trade_history', 1, Len(trade_history)) = trade_history
            /\ trade_history'[Len(trade_history')].position_id \in DOMAIN positions
            /\ trade_history'[Len(trade_history')].position_id \notin DOMAIN positions'
       ELSE trade_history' = trade_history]_vars

\* C16 witness: two successful closes have left two entries, the one of the
\* position closed first in front.
C16_TwoClosesInOrder ==
    /\ last.op = "close_position"
    /\ last.res = "ok"
    /\ Len(trade_history) = 2
    /\ trade_history[1].position_id # trade_history[2].position_id
    /\ trade_history[1].exit_price # trade_history[2].exit_price

\* C17 (fails on the code): an evaluate with a price at or below 0 never
\* returns an approval; the call fails and leaves the ledger as it was.
C17_NoApprovalWithoutPositivePrice ==
    \A signal \in AnySignal, df \in AnyFrame :
        \A current_price \in {p \in AnyPrice : p <= 0} :
            EvaluateResult(signal, current_price, df).res # "approved"

\* the levels and the size an evaluate computes from its inputs, and the
\* three tests of the gate as the claims state them
GateSide(signal) == IF signal.signal_type = "buy" THEN "long" ELSE "short"
GateStop(signal, current_price, df) == calculate_stop_loss(current_price, df, GateSide(signal))
GateTarget(signal, current_price, df) == calculate_take_profit(current_price, GateStop(signal, current_price, df), df, GateSide(signal))
GateSize(signal, current_price, df) == calculate_position_size(signal.strength, current_price, GateStop(signal, current_price, df))
LimitsBreached == DrawdownBreached \/ StreakBreached \/ DailyLossBreached
ExposureExceeded(signal, current_price, df) ==
    (current_exposure + GateSize(signal, current_price, df).dollar_amount) * 100
        > max_portfolio_exposure * portfolio_value
RewardTooLow(signal, current_price, df) ==
    Abs(GateTarget(signal, current_price, df) - current_price)
        < min_risk_reward_ratio * Abs(current_price - GateStop(signal, current_price, df))

C20_ApprovalMeetsRewardFloor ==
    /\ \A signal \in AnySignal, current_price \in AnyPrice \ {0}, df \in AnyFrame :
           LET result == EvaluateResult(signal, current_price, df)
               risk == Abs(current_price - GateStop(signal, current_price, df))
           IN /\ result.res = "approved"
                 => /\ Abs(result.val.take_profit - current_price)
                           >= min_risk_reward_ratio * risk
                    /\ result.val.risk_reward_ratio * risk
                           = Abs(result.val.take_profit - current_price)
                    /\ result.val.stop_loss = GateStop(signal, current_price, df)
              /\ (/\ ~LimitsBreached
                  /\ ~ExposureExceeded(signal, current_price, df)
                  /\ RewardTooLow(signal, current_price, df))
                 => result.res = "Risk/reward ratio below minimum"
    /\ ~LimitsBreached
       => LET result == EvaluateResult(Signal("buy", 100), 100, Frame(FALSE, 0))
          IN /\ result.res = "approved"
             /\ result.val.stop_loss = 98
             /\ result.val.take_profit = 104
             /\ result.val.risk_reward_ratio = 2

\* C20 witness: an evaluate has approved a long with the stop at 98, the
\* take_profit at 104 and a risk/reward ratio of 2.
C20_ScenarioApproved ==
    /\ last.op = "evaluate_trade_opportunity"
    /\ last.res = "approved"
    /\ last.val.position_type = "long"
    /\ last.val.stop_loss = 98
    /\ last.val.take_profit = 104
    /\ last.val.risk_reward_ratio = 2

\* C21: update_position_pnl on an open id sets that position's unrealized_pnl
\* to (current - entry) * units for a long and (entry - current) * units for a
\* short and changes no other field, no other position and nothing of the
\* portfolio state; on an unknown id it changes nothing and reports no error.
C21_MarkSetsOnlyUnrealizedPnl ==
    [][\A position_id \in Ids, current_price \in MarkPrices :
          update_position_pnl(position_id, current_price)
          => /\ last'.res = "ok"
             /\ UNCHANGED <<trade_history, daily_pnl, current_capital, peak_capital,
                            consecutive_losses, current_exposure>>
             /\ DOMAIN positions' = DOMAIN positions
             /\ \A id \in DOMAIN positions :
                    IF id = position_id
                    THEN LET position == positions[id]
                             pnl == IF position.position_type = "long"
                                    THEN (current_price - position.entry_price) * position.units
                                    ELSE (position.entry_price - current_price) * position.units
                         IN positions'[id] = [position EXCEPT !.unrealized_pnl = pnl]
                    ELSE positions'[id] = positions[id]]_vars

\* C21 witness: a mark has set the unrealized_pnl of a short position to its
\* loss at the marked price while a second open position has stayed unmarked.
C21_OneOfTwoMarked ==
    /\ last.op = "update_position_pnl"
    /\ \E a, b \in DOMAIN positions :
           /\ a # b
           /\ positions[a].position_type = "short"
           /\ positions[a].unrealized_pnl = (100 - 150) * 60
           /\ positions[b].unrealized_pnl = 0

\* what the claims say of a price against a level of an open position
StopHit(position, price) ==
    IF position.position_type = "long" THEN price <= position.stop_loss
    ELSE price >= position.stop_loss
TakeProfitHit(position, price) ==
    IF position.position_type = "long" THEN price >= position.take_profit
    ELSE price <= position.take_profit

\* C22: check_stop_loss_hit returns true exactly when price <= stop_loss for a
\* long and price >= stop_loss for a short, check_take_profit_hit exactly when
\* price >= take_profit for a long and price <= take_profit for a short; both
\* return false for an unknown id and neither changes any state.
C22_HitChecks ==
    [][\A position_id \in TrailIds, current_price \in CheckPrices :
          /\ check_stop_loss_hit(position_id, current_price)
             => /\ UNCHANGED <<ledger, today>>
                /\ last'.val = (/\ position_id \in DOMAIN positions
                                /\ StopHit(positions[position_id], current_price))
          /\ check_take_profit_hit(position_id, current_price)
             => /\ UNCHANGED <<ledger, today>>
                /\ last'.val = (/\ position_id \in DOMAIN positions
                                /\ TakeProfitHit(positions[position_id], current_price))]_vars

\* C22 witness: a stop check has answered true for an open long position whose
\* stop has been trailed to 245.
C22_TrailedStopHit ==
    /\ last.op = "check_stop_loss_hit"
    /\ last.val = TRUE
    /\ \E id \in DOMAIN positions :
           /\ positions[id].position_type = "long"
           /\ positions[id].stop_loss = 245

\* the two caps of a size, in dollars
PositionCap == (portfolio_value * max_position_size) \div 100
AvailableExposure == (max_portfolio_exposure * portfolio_value) \div 100 - current_exposure

\* C23: whatever the method and the inputs, the dollar_amount of a returned
\* size is at most portfolio_value * max_position_size and at most
\* (max_portfolio_exposure - current_exposure) * portfolio_value.
C23_SizeWithinCaps ==
    \A call \in SizeCalls, current_price \in SizePrices, move \in SizeMoves :
        LET result == SizeResult(call[2], current_price, current_price - move, call[1])
        IN result.res = "ok"
           => /\ result.val.dollar_amount * 100 <= portfolio_value * max_position_size
              /\ (current_exposure + result.val.dollar_amount) * 100
                     <= max_portfolio_exposure * portfolio_value

\* C23 witness: with 25% of the portfolio open, a size has come back cut to
\* the 5% that is left under the exposure limit.
C23_CutToAvailable ==
    /\ last.op = "calculate_position_size"
    /\ last.res = "ok"
    /\ current_exposure * 100 = 25 * portfolio_value
    /\ last.val.dollar_amount * 100 = 5 * portfolio_value
    /\ last.val.dollar_amount < PositionCap

\* C25: for a positive price, fixed-fractional sizing has risk_amount =
\* portfolio_value * risk_per_trade * signal_strength and, before the caps,
\* dollar_amount = risk_amount / (|entry - stop| / entry), or 0 when the stop
\* is at the entry; strength 1.0, entry 100 and stop 98 on a portfolio of 10000
\* give risk_amount 200 and 10000 before the caps, cut to max_position_size.
C25_FixedFractionalFormula ==
    /\ \A strength \in {0, 5, 10, 100}, move \in SizeMoves :
           LET result == SizeResult(strength, 100, 100 - move, "fixed_fractional")
               risk == (portfolio_value * risk_per_trade * strength) \div (100 * 100)
               before_caps == IF move = 0 THEN 0 ELSE (risk * 100) \div Abs(move)
           IN /\ result.res = "ok"
              /\ result.val.risk_amount = risk
              /\ result.val.dollar_amount
                     = Min(Min(before_caps, PositionCap), AvailableExposure)
    /\ LET scenario == SizeResult(100, 100, 98, "fixed_fractional")
       IN /\ scenario.val.risk_amount = 200
          /\ (scenario.val.risk_amount * 100) \div (100 - 98) = 10000
          /\ AvailableExposure >= PositionCap => scenario.val.dollar_amount = PositionCap

\* C25 witness: the size of the scenario has been returned: risk_amount 200
\* and a dollar_amount of max_position_size of the portfolio for a stop at 98.
C25_ScenarioSized ==
    /\ last.op = "calculate_position_size"
    /\ last.res = "ok"
    /\ last.val.risk_amount = 200
    /\ last.val.stop_loss_price = 98
    /\ last.val.dollar_amount = PositionCap
    /\ last.val.units = 10

\* C26 (fails on the code): volatility-adjusted sizing with no atr supplied
\* uses volatility_factor = max(|entry - stop| / entry, 0.02), so that for a
\* positive price a size always comes back, the one of the target fraction
\* (risk_per_trade / volatility_factor) * signal_strength under the two caps.
C26_VolatilityFactorFloor ==
    \A strength \in {0, 5, 10, 100}, move \in SizeMoves :
        LET result == SizeResult(strength, 100, 100 - move, "volatility_adjusted")
            volatility_factor == Max(Abs(move), 2)
            target == (portfolio_value * risk_per_trade * strength)
                          \div (volatility_factor * 100)
        IN /\ result.res = "ok"
           /\ result.val.dollar_amount
                  = Min(Min(target, PositionCap), AvailableExposure)

\* C24: current_capital, peak_capital, consecutive_losses, daily_pnl,
\* trade_history and current_exposure are changed by add_position and
\* close_position only: evaluate, the mark, the two hit checks, the trailing
\* update, calculate_position_size and the metrics leave all of them unchanged.
C24_OnlyOpenAndCloseWrite ==
    [][last'.op \notin {"add_position", "close_position"}
       => UNCHANGED <<current_capital, peak_capital, consecutive_losses, daily_pnl,
                      trade_history, current_exposure>>]_vars

\* C24 witness: the metrics have been read over a ledger with an open
\* position, a closed trade and a losing streak.
C24_MetricsOverBusyLedger ==
    /\ last.op = "get_portfolio_metrics"
    /\ positions # <<>>
    /\ trade_history # <<>>
    /\ consecutive_losses > 0
    /\ current_exposure > 0

\* the pnl of the trades of the history at the given indices, summed
RECURSIVE PnlAt(_)
PnlAt(indices) ==
    IF indices = {} THEN 0
    ELSE LET i == CHOOSE x \in indices : TRUE
         IN trade_history[i].pnl + PnlAt(indices \ {i})

\* C29: the metrics report profit_factor = gross_profit / gross_loss over the
\* trade history when gross_loss > 0, infinity when there is no loss and some
\* profit, and 0 when there is neither (in particular with no trades);
\* total_trades is the length of the history and winning_trades +
\* losing_trades <= total_trades.
C29_ProfitFactor ==
    last.op = "get_portfolio_metrics"
    => LET metrics == last.val
           wins == {i \in DOMAIN trade_history : trade_history[i].pnl > 0}
           losses == {i \in DOMAIN trade_history : trade_history[i].pnl < 0}
           gross_profit == PnlAt(wins)
           gross_loss == -PnlAt(losses)
       IN /\ metrics.total_trades = Len(trade_history)
          /\ metrics.winning_trades = Cardinality(wins)
          /\ metrics.losing_trades = Cardinality(losses)
          /\ metrics.winning_trades + metrics.losing_trades <= metrics.total_trades
          /\ gross_loss > 0
             => /\ ~metrics.profit_factor.infinite
                /\ metrics.profit_factor.den > 0
                /\ metrics.profit_factor.num * gross_loss
                       = gross_profit * metrics.profit_factor.den
          /\ (gross_loss = 0 /\ gross_profit > 0) => metrics.profit_factor.infinite
          /\ (gross_loss = 0 /\ gross_profit = 0)
             => /\ ~metrics.profit_factor.infinite
                /\ metrics.profit_factor.num = 0

\* C29 witness: metrics over a winning and a flat trade: two trades, one of
\* them counted as won, none as lost, and an infinite profit factor.
C29_WinAndFlat ==
    /\ last.op = "get_portfolio_metrics"
    /\ last.val.total_trades = 2
    /\ last.val.winning_trades = 1
    /\ last.val.losing_trades = 0
    /\ last.val.profit_factor.infinite

\* C28: calculate_trailing_stop returns the current stop whenever the profit
\* relative to the entry is at most the 2% trigger; above the trigger it
\* returns max(current_stop, current_price * (1 - trailing_pct)) for a long and
\* min(current_stop, current_price * (1 + trailing_pct)) for a short.
C28_TrailingStopFormula ==
    last.op = "calculate_trailing_stop"
    => LET call == last.val
           long == call.position_type = "long"
           profit == IF long THEN call.current_price - call.entry_price
                     ELSE call.entry_price - call.current_price
       IN IF profit * 100 <= 2 * call.entry_price
          THEN call.new_stop = call.current_stop
          ELSE IF long
          THEN call.new_stop = Max(call.current_stop, (call.current_price * 98) \div 100)
          ELSE call.new_stop = Min(call.current_stop, (call.current_price * 102) \div 100)

\* C28 witness: a long at a profit of exactly 2%, its stop below the level
\* that price would trail to, has kept its stop.
C28_AtTriggerUnchanged ==
    /\ last.op = "calculate_trailing_stop"
    /\ last.val.position_type = "long"
    /\ last.val.entry_price = 5000
    /\ last.val.current_price = 5100
    /\ last.val.current_stop = 4800
    /\ last.val.new_stop = 4800

\* whether a history holds a level the support/resistance stop can use for an
\* entry: a low below its two neighbours on either side and below the entry
\* for a long, a high above its neighbours and above the entry for a short
QualifyingLevel(df, entry_price, position_type) ==
    IF position_type = "long"
    THEN \E i \in 3..(Len(df.lows) - 2) :
             /\ \A k \in {i - 2, i - 1, i + 1, i + 2} : df.lows[i] < df.lows[k]
             /\ df.lows[i] < entry_price
    ELSE \E i \in 3..(Len(df.highs) - 2) :
             /\ \A k \in {i - 2, i - 1, i + 1, i + 2} : df.highs[i] > df.highs[k]
             /\ df.highs[i] > entry_price

C30_PairedOpensWithinLimit ==
    current_exposure <= (max_portfolio_exposure * portfolio_value) \div 100

\* C30 witness: three paired opens have filled the exposure to the limit and a
\* fourth signal was approved and opened with no units.
C30_FilledToTheLimit ==
    /\ last.op = "add_position"
    /\ current_exposure * 100 = max_portfolio_exposure * portfolio_value
    /\ Cardinality(DOMAIN positions) = 4
    /\ \E id \in DOMAIN positions : positions[id].units = 0


\* C31 (fails on the code): every approval evaluate returns carries a position
\* size with units >= 0 and dollar_amount >= 0, in every reachable state of the
\* ledger.
C31_ApprovalSizeNonNegative ==
    (last.op = "evaluate_trade_opportunity" /\ last.res = "approved")
    => /\ last.val.position_size.units >= 0
       /\ last.val.position_size.dollar_amount >= 0


RECURSIVE SumDaily(_)
SumDaily(daily) ==
    IF DOMAIN daily = {} THEN 0
    ELSE LET d == CHOOSE x \in DOMAIN daily : TRUE
         IN daily[d] + SumDaily([x \in DOMAIN daily \ {d} |-> daily[x]])

\* C33: in every reachable state current_capital is initial_capital plus the
\* sum of the pnl of all entries of trade_history, and the values of daily_pnl
\* sum to that same pnl sum.
C33_CapitalAndDailyPnlAddUp ==
    /\ current_capital = initial_capital + SumPnl(trade_history, "all")
    /\ SumDaily(daily_pnl) = SumPnl(trade_history, "all")

\* C33 witness: three trades were closed on two days, two of them on one day,
\* with wins and losses that do not cancel.
C33_TradesOverTwoDays ==
    /\ Len(trade_history) = 3
    /\ Cardinality(DOMAIN daily_pnl) = 2
    /\ \E i, j \in DOMAIN trade_history : trade_history[i].pnl > 0 /\ trade_history[j].pnl < 0
    /\ current_capital # initial_capital
    /\ \A d \in DOMAIN daily_pnl : daily_pnl[d] # 0


\* no position is open and the losing streak or the drawdown is at its limit
Locked ==
    /\ DOMAIN positions = {}
    /\ StreakBreached \/ DrawdownBreached

\* C34: once consecutive_losses >= max_consecutive_losses or the drawdown is
\* above max_drawdown while no position is open, this stays so after every
\* operation of a caller that opens positions only after an approval, and
\* every later evaluate is rejected with risk limits exceeded.
C34_LockedForever ==
    [][Locked => /\ Locked'
                 /\ last'.op = "evaluate_trade_opportunity"
                    => last'.res = "Risk limits exceeded"]_vars

\* C34 witness: on a later day with no loss booked, the streak at its limit
\* and the drawdown below its own, an evaluate was rejected for the risk
\* limits.
C34_StillLockedNextDay ==
    /\ Locked
    /\ StreakBreached /\ ~DrawdownBreached
    /\ today \notin DOMAIN daily_pnl
    /\ last.op = "evaluate_trade_opportunity"
    /\ last.res = "Risk limits exceeded"


\* C35: evaluate trades a buy signal long and every other signal type, hold
\* included, short; a hold signal that passes the risk limits is evaluated as
\* a short trade, at a positive price with the stop above and the target below
\* it, and can be approved.
C35_OnlyBuyIsLong ==
    \A signal \in AnySignal, current_price \in AnyPrice \ {0}, df \in AnyFrame :
        LET result == EvaluateResult(signal, current_price, df)
        IN /\ result.res = "approved"
              => /\ result.val.position_type = "long" <=> signal.signal_type = "buy"
                 /\ result.val.position_type = "short" <=> signal.signal_type # "buy"
                 /\ (result.val.position_type = "short" /\ current_price > 0)
                    => /\ result.val.stop_loss > current_price
                       /\ result.val.take_profit < current_price
           /\ (~LimitsBreached /\ signal.signal_type = "hold" /\ current_price > 0)
              => /\ result.res = "approved"
                 /\ result.val.position_type = "short"

\* C35 witness: the evaluation of a hold signal of full strength at 100 has
\* approved a short of positive size with the stop at 102 and the target at 96.
C35_HoldApprovedShort ==
    /\ last.op = "evaluate_trade_opportunity"
    /\ last = EvaluateResult(Signal("hold", 100), 100, Frame(FALSE, 0))
    /\ last.res = "approved"
    /\ last.val.position_type = "short"
    /\ last.val.stop_loss = 102
    /\ last.val.take_profit = 96
    /\ last.val.position_size.units > 0


\* the open positions a monitoring cycle at this price has to close
HitAt(price) ==
    {id \in DOMAIN positions :
        StopHit(positions[id], price) \/ TakeProfitHit(positions[id], price)}

\* C37: one _monitor_positions cycle at price p closes, exactly once each,
\* every open position whose stop is hit at p, with reason stop_loss, and
\* every other open position whose target is hit at p, with reason
\* take_profit; the positions with neither hit stay open with their levels,
\* and after the cycle no open position has its stop or its target hit at p.
C37_MonitorClosesExactlyTheHit ==
    [][\A p \in MonitorPrices :
          monitor_positions(p)
          => LET booked == {i \in DOMAIN trade_history' : i > Len(trade_history)}
             IN /\ DOMAIN positions' = DOMAIN positions \ HitAt(p)
                /\ Len(trade_history') = Len(trade_history) + Cardinality(HitAt(p))
                /\ \A id \in HitAt(p) :
                       \E i \in booked :
                          /\ trade_history'[i].position_id = id
                          /\ trade_history'[i].exit_price = p
                          /\ trade_history'[i].reason =
                                 IF StopHit(positions[id], p) THEN "stop_loss"
                                 ELSE "take_profit"
                          /\ \A j \in booked : trade_history'[j].position_id = id => j = i
                /\ \A id \in DOMAIN positions' :
                       /\ ~StopHit(positions'[id], p)
                       /\ ~TakeProfitHit(positions'[id], p)
                       /\ positions'[id] = [positions[id] EXCEPT !.unrealized_pnl =
                                               PositionPnl(positions[id], p)]]_vars

\* C37 witness: one cycle has closed three positions, one on its stop, one on
\* its target and one, with both hit, on its stop.
C37_ThreeClosedInOneCycle ==
    /\ last.op = "_monitor_positions"
    /\ Len(last.val) = 3
    /\ Len(trade_history) = 3
    /\ \E i \in 1..3 : /\ trade_history[i].reason = "take_profit"
                        /\ trade_history[i].position_type = "long"
    /\ \E i \in 1..3 : /\ trade_history[i].reason = "stop_loss"
                        /\ trade_history[i].position_type = "short"
    /\ \E i \in 1..3 : /\ trade_history[i].reason = "stop_loss"
                        /\ trade_history[i].position_type = "long"
                        /\ trade_history[i].exit_price >= 99


PlaceCalls(cs) == {k \in DOMAIN cs : k[1] = "place_order"}
Finished(call) == call.at \in {"returned", "raised"}

\* C38: place_order registers the order as pending; it calls the exchange at
\* most retry_attempts times; it returns in the step of the first response
\* of the exchange, with the order open and its exchange id set, and is then
\* over; when it raises, the order is failed; and no call that is over has
\* left its order pending.
C38_PlaceOrderRetries ==
    [][/\ \A order_type \in OrderTypes :
            place_order(order_type, MaxOrders) =>
                /\ NextOrderId \notin DOMAIN orders
                /\ orders'[NextOrderId] = Order(order_type)
       /\ \A k \in PlaceCalls(calls') :
            /\ calls'[k].made <= retry_attempts
            /\ Finished(calls'[k]) => orders'[k[2]].status # "pending"
       /\ \A k \in PlaceCalls(calls) :
            /\ create_order_returns(k[2], "ok") =>
                  /\ calls'[k].at = "returned"
                  /\ calls'[k].made = calls[k].made
                  /\ orders'[k[2]].status = "open"
                  /\ orders'[k[2]].exchange_order_id # None
                  /\ last' = Call("place_order", "ok", k[2])
            /\ (~Finished(calls[k]) /\ calls'[k].at = "returned") =>
                  create_order_returns(k[2], "ok")
            /\ (~Finished(calls[k]) /\ calls'[k].at = "raised") =>
                  /\ orders'[k[2]].status = "failed"
                  /\ last' = Call("place_order", "raised", k[2])
            /\ Finished(calls[k]) => calls'[k] = calls[k]
      ]_vars

\* every one of the three attempts of an order has failed
C38_FailedAfterThreeAttempts ==
    \E k \in PlaceCalls(calls) :
        /\ calls[k].at = "raised"
        /\ calls[k].made = retry_attempts
        /\ orders[k[2]].status = "failed"
        /\ last = Call("place_order", "raised", k[2])

\* ------------------------------------------------------------------ C39
Refused(order_id) ==
    \/ order_id \notin DOMAIN orders
    \/ orders[order_id].status \in {"filled", "cancelled"}

BecomesCancelled(order_id) ==
    /\ order_id \in DOMAIN orders
    /\ orders[order_id].status # "cancelled"
    /\ orders'[order_id].status = "cancelled"

\* C39: cancel_order returns False and changes no order when the id is
\* unknown, when the order is filled or cancelled already (the exchange is
\* not asked then) and when the cancel call of the exchange fails; otherwise
\* it changes no order before the exchange has answered; it returns True, in
\* the step in which it marks the order cancelled, exactly when the cancel
\* call of the exchange has succeeded.
C39_CancelOnlyAfterExchange ==
    [][\A order_id \in AnyOrderIds :
          /\ cancel_order(order_id) =>
                /\ orders' = orders
                /\ IF Refused(order_id)
                   THEN last' = Call("cancel_order", "False", order_id) /\ calls' = calls
                   ELSE <<"cancel_order", order_id>> \in DOMAIN calls' /\ last' = last
          /\ cancel_order_returns(order_id, "error") =>
                /\ last' = Call("cancel_order", "False", order_id)
                /\ orders' = orders
          /\ cancel_order_returns(order_id, "ok") =>
                /\ last' = Call("cancel_order", "True", order_id)
                /\ orders' = [orders EXCEPT ![order_id].status = "cancelled"]
          /\ (last' # last /\ last' = Call("cancel_order", "True", order_id)) =>
                cancel_order_returns(order_id, "ok")
          /\ BecomesCancelled(order_id) =>
                \/ cancel_order_returns(order_id, "ok")
                \/ check_order_status(order_id, "canceled")
      ]_vars

\* an order that had been opened has been cancelled by cancel_order
C39_OpenOrderCancelled ==
    /\ last = Call("cancel_order", "True", 1)
    /\ orders[1].status = "cancelled"
    /\ orders[1].exchange_order_id # None

====
